---- MODULE Spec2Model ----
(***************************************************************************)
(* A model of the eCFR analyzer's reference pipeline: the agency reference *)
(* resolver, the hierarchical text extractor, the deduplicating reference  *)
(* processor, the metric analyzers plugged into it and the agency rollup.  *)
(*                                                                         *)
(* Strings that the code inspects character by character (the N attribute  *)
(* of an XML element, the values of a CFR reference) are sequences of      *)
(* one-character strings.  Extracted text is a sequence of word            *)
(* occurrences; each occurrence carries the word and the place it comes    *)
(* from (title, element, position) so that two occurrences of one source   *)
(* word can be told from two different words that read the same.           *)
(***************************************************************************)
EXTENDS Integers, Sequences, FiniteSets, TLC

(***************************************************************************)
(* Generic helpers                                                         *)
(***************************************************************************)
Range(s) == {s[i] : i \in 1..Len(s)}

RECURSIVE SumSeq(_)
SumSeq(s) == IF s = <<>> THEN 0 ELSE Head(s) + SumSeq(Tail(s))

RECURSIVE SetToSeq(_)
SetToSeq(S) ==
    IF S = {} THEN <<>>
    ELSE LET x == CHOOSE y \in S : TRUE IN <<x>> \o SetToSeq(S \ {x})

\* The titles from the largest to the smallest.
RECURSIVE DescendingSeq(_)
DescendingSeq(S) ==
    IF S = {} THEN <<>>
    ELSE LET m == CHOOSE y \in S : \A z \in S : y >= z
         IN <<m>> \o DescendingSeq(S \ {m})

RECURSIVE SortedSeq(_)
SortedSeq(S) ==
    IF S = {} THEN <<>>
    ELSE LET m == CHOOSE y \in S : \A z \in S : y <= z
         IN <<m>> \o SortedSeq(S \ {m})

RECURSIVE FlattenSeq(_)
FlattenSeq(ss) == IF ss = <<>> THEN <<>> ELSE Head(ss) \o FlattenSeq(Tail(ss))

(***************************************************************************)
(* Character strings: str.lower() and the substring test `a in b`          *)
(***************************************************************************)
LowerChar(c) ==
    CASE c = "I" -> "i"
      [] c = "A" -> "a"
      [] OTHER   -> c

Lower(s) == [i \in 1..Len(s) |-> LowerChar(s[i])]

Digits == <<"0", "1", "2", "3", "4", "5", "6", "7", "8", "9">>

\* str(n) of a title number: its decimal digits.
Str(n) ==
    IF n < 10 THEN <<Digits[n + 1]>>
    ELSE <<Digits[(n \div 10) + 1], Digits[(n % 10) + 1]>>

Contains(sub, s) ==
    \E i \in 0..(Len(s) - Len(sub)) : SubSeq(s, i + 1, i + Len(sub)) = sub

(***************************************************************************)
(* CFR references.  A field the reference does not have is 0 (title) or    *)
(* the empty string: ref.get(field) is then falsy.                         *)
(***************************************************************************)
NoStr == <<>>

MkRef(t, ch, pt, sec) ==
    [title |-> t, subtitle |-> NoStr, chapter |-> ch, subchapter |-> NoStr,
     part |-> pt, subpart |-> NoStr, subjgrp |-> NoStr, section |-> sec]

\* The title of a reference without one.
NoTitle == 0

\* ref.get(field, ""): the value of the field, the empty value when the
\* reference has no such field.
RefGet(ref, field) ==
    IF field \in DOMAIN ref THEN ref[field]
    ELSE IF field = "title" THEN NoTitle ELSE NoStr

\* A key that tells references apart down to the section.
KeyDownToSection(ref) ==
    <<RefGet(ref, "title"), RefGet(ref, "subtitle"), RefGet(ref, "chapter"),
      RefGet(ref, "subchapter"), RefGet(ref, "part"),
      RefGet(ref, "subpart"), RefGet(ref, "subjgrp"), RefGet(ref, "section")>>

_create_ref_key(ref) ==
    <<RefGet(ref, "title"), RefGet(ref, "subtitle"), RefGet(ref, "chapter"),
      RefGet(ref, "subchapter"), RefGet(ref, "part")>>

(***************************************************************************)
(* The XML of a title: its elements in document order.  parent is the      *)
(* index of the enclosing element (0 at the top), tag the k of DIVk, n the *)
(* N attribute and words the element's own text.  raises names the calls on *)
(* the element that end in an exception: none for a well-formed element.   *)
(***************************************************************************)
El(tag, n, parent, words) ==
    [tag |-> tag, n |-> n, parent |-> parent, words |-> words, raises |-> {}]

XmlTitle1 ==
    << El(1, <<"1">>, 0, <<"the">>),
       El(3, <<"I">>, 1, <<"rule">>),
       El(5, <<"5">>, 2, <<"form">>),
       El(8, <<"5", ".", "1">>, 3, <<"compliance", "form">>),
       El(5, <<"1", "5">>, 2, <<"rule">>) >>

XmlTitle3 ==
    << El(1, <<"3">>, 0, <<>>),
       El(5, <<"9">>, 1, <<>>),
       El(5, <<"7">>, 1, <<"form", "the">>) >>

\* The files under data/raw/text: title -> document.  A title with no file
\* is not in the domain.
\* The largest title number with a file.
MaxTitle == 7

\* The file of one of the further titles: a DIV1 with a word, or with none.
XmlOfTitle(t) == << El(1, Str(t), 0, IF t % 2 = 1 THEN <<"form">> ELSE <<>>) >>

XmlFiles == (1 :> XmlTitle1) @@ (3 :> XmlTitle3) @@ [t \in 4..MaxTitle |-> XmlOfTitle(t)]

RECURSIVE IsDescendant(_, _, _)
IsDescendant(doc, d, a) ==
    IF doc[d].parent = 0 THEN FALSE
    ELSE doc[d].parent = a \/ IsDescendant(doc, doc[d].parent, a)

\* The search among the direct children only (recursive=False).
FindChildren(doc, a, tag) ==
    SelectSeq([i \in 1..Len(doc) |-> i],
              LAMBDA d : doc[d].tag = tag /\ doc[d].parent = a)

\* element.find_all(tag, recursive=True): the proper descendants with the
\* tag, in document order.
FindAll(doc, a, tag) ==
    SelectSeq([i \in 1..Len(doc) |-> i],
              LAMBDA d : doc[d].tag = tag /\ IsDescendant(doc, d, a))

\* soup.find_all("DIV1")
FindAllInDoc(doc, tag) ==
    SelectSeq([i \in 1..Len(doc) |-> i], LAMBDA d : doc[d].tag = tag)

OwnText(t, doc, d) ==
    [p \in 1..Len(doc[d].words) |-> [src |-> <<t, d, p>>, word |-> doc[d].words[p]]]

\* element.get_text(separator=" ", strip=True): the words of the element
\* and of everything below it, in document order.
GetText(t, doc, a) ==
    FlattenSeq([d \in 1..Len(doc) |->
        IF d = a \/ IsDescendant(doc, d, a) THEN OwnText(t, doc, d) ELSE <<>>])

DocText(t, doc) == FlattenSeq([d \in 1..Len(doc) |-> OwnText(t, doc, d)])

(***************************************************************************)
(* _extract_text_for_reference                                             *)
(***************************************************************************)
\* The levels below the title, in the order the extractor visits them:
\* the DIV tag, the field of the reference and the word of the description.
Levels ==
    << [tag |-> 2, key |-> "subtitle",   name |-> "Subtitle"],
       [tag |-> 3, key |-> "chapter",    name |-> "Chapter"],
       [tag |-> 4, key |-> "subchapter", name |-> "Subchapter"],
       [tag |-> 5, key |-> "part",       name |-> "Part"],
       [tag |-> 6, key |-> "subpart",    name |-> "Subpart"],
       [tag |-> 7, key |-> "subjgrp",    name |-> "Subject Group"],
       [tag |-> 8, key |-> "section",    name |-> "Section"] >>

\* `n and ref_value.lower() in n.lower()`
NMatches(ref_value, n) == n # <<>> /\ Contains(Lower(ref_value), Lower(n))

\* find_matching_elements: the elements with the tag below each parent, in
\* the order the two nested loops append them; <<>> stands for None (the
\* reference has no value at this level, or nothing matched).  A parent
\* whose search raises is skipped (`except ...: continue`).
find_matching_elements(doc, parent_elements, div_tag, ref_value) ==
    IF ref_value = NoStr THEN <<>>
    ELSE FlattenSeq([i \in 1..Len(parent_elements) |->
            IF "find_all" \in doc[parent_elements[i]].raises THEN <<>>
            ELSE SelectSeq(FindAll(doc, parent_elements[i], div_tag),
                           LAMBDA d : NMatches(ref_value, doc[d].n))])

RECURSIVE NarrowStrict(_, _, _, _)
\* Strict nesting: a level the reference names and that matches nothing
\* ends the search with no candidate.
NarrowStrict(doc, ref, st, l) ==
    IF l > Len(Levels) THEN st
    ELSE LET lv      == Levels[l]
             matched == find_matching_elements(doc, st.targets, lv.tag, RefGet(ref, lv.key))
         IN IF matched # <<>>
            THEN NarrowStrict(doc, ref,
                    [targets |-> matched,
                     levels  |-> Append(st.levels,
                                   [level |-> lv.name, value |-> RefGet(ref, lv.key)])],
                    l + 1)
            ELSE IF RefGet(ref, lv.key) # NoStr
            THEN [targets |-> <<>>, levels |-> st.levels]
            ELSE NarrowStrict(doc, ref, st, l + 1)

RECURSIVE NarrowLevels(_, _, _, _)
\* st = [targets, levels]; l is the next level to try.
NarrowLevels(doc, ref, st, l) ==
    IF l > Len(Levels) THEN st
    ELSE LET lv      == Levels[l]
             matched == find_matching_elements(doc, st.targets, lv.tag, RefGet(ref, lv.key))
         IN IF matched # <<>>
            THEN NarrowLevels(doc, ref,
                    [targets |-> matched,
                     levels  |-> Append(st.levels,
                                   [level |-> lv.name, value |-> RefGet(ref, lv.key)])],
                    l + 1)
            ELSE NarrowLevels(doc, ref, st, l + 1)

\* The extraction given up at the first element whose text raises.
TextPartsOrFail(t, doc, targets) ==
    IF \E i \in 1..Len(targets) : "get_text" \in doc[targets[i]].raises
    THEN <<>>
    ELSE FlattenSeq([i \in 1..Len(targets) |-> GetText(t, doc, targets[i])])

\* The text parts of the target elements, empty parts left out.  An
\* element whose get_text raises is skipped (`except ...: continue`).
TextParts(t, doc, targets) ==
    FlattenSeq([i \in 1..Len(targets) |->
        IF "get_text" \in doc[targets[i]].raises THEN <<>>
        ELSE GetText(t, doc, targets[i])])

\* What the extractor runs in: the parser BeautifulSoup has ("lxml-xml",
\* else "html.parser", else "none": both constructors raise) and whether
\* the search for the DIV1 elements raises.
NoFaults == [parser |-> "lxml-xml", div1 |-> "ok"]

\* xml_data is the document of title t.  The result is (text, description);
\* the description is "Title <n>" followed by ", <Level> <value>" for each
\* matched level, or the diagnostic of a failure.  html.parser gives the
\* tags in lower case: find_all("DIV1") finds none of them.
_extract_text_for_reference(t, xml_data, ref, env) ==
    IF xml_data = <<>>
    THEN [text |-> <<>>, desc |-> [error |-> "No XML data"]]
    ELSE IF env.parser = "none"
    THEN [text |-> <<>>, desc |-> [error |-> "Error parsing XML"]]
    ELSE IF env.div1 = "raises"
    THEN [text |-> <<>>, desc |-> [error |-> "Error"]]
    ELSE
    LET doc == xml_data
        div1_elements == IF env.parser = "html.parser" THEN <<>>
                         ELSE FindAllInDoc(doc, 1)
    IN IF div1_elements = <<>>
       THEN [text |-> DocText(t, doc),
             desc |-> [title |-> RefGet(ref, "title"),
                       levels |-> <<[level |-> "(full text)", value |-> NoStr]>>]]
       ELSE LET st == NarrowLevels(doc, ref,
                         [targets |-> div1_elements, levels |-> <<>>], 1)
            IN [text |-> TextParts(t, doc, st.targets),
                desc |-> [title |-> RefGet(ref, "title"), levels |-> st.levels]]

(***************************************************************************)
(* The reference pool of the model                                         *)
(***************************************************************************)
RefChapterI  == MkRef(1, <<"I">>, NoStr, NoStr)
RefPart5     == MkRef(1, <<"I">>, <<"5">>, NoStr)
RefSection51 == MkRef(1, <<"I">>, <<"5">>, <<"5", ".", "1">>)
RefNoFile    == MkRef(2, NoStr, <<"5">>, NoStr)
RefEmpty9    == MkRef(3, NoStr, <<"9">>, NoStr)

RefPool == {RefChapterI, RefPart5, RefSection51, RefEmpty9, RefNoFile}

(***************************************************************************)
(* Python dicts: insertion-ordered maps.  A dict whose order the code      *)
(* never depends on is a function; one the code iterates over is a         *)
(* sequence of [k, v] pairs.                                               *)
(***************************************************************************)
EmptyMap == [z \in {} |-> z]

Put(d, k, v) == (k :> v) @@ d

Keys(od) == [i \in 1..Len(od) |-> od[i].k]

HasKey(od, k) == \E i \in 1..Len(od) : od[i].k = k

Get(od, k) == od[CHOOSE i \in 1..Len(od) : od[i].k = k].v

\* od[k] = v: a new key goes to the end, a known key keeps its place.
OPut(od, k, v) ==
    IF HasKey(od, k)
    THEN [i \in 1..Len(od) |-> IF od[i].k = k THEN [k |-> k, v |-> v] ELSE od[i]]
    ELSE Append(od, [k |-> k, v |-> v])

(***************************************************************************)
(* The agency document and the agency reference resolver                   *)
(***************************************************************************)
Agency(slug, refs, children) ==
    [slug |-> slug, cfr_references |-> refs, children |-> children]

RECURSIVE ResolveChildren(_, _)
ResolveChildren(references, children) ==
    IF children = <<>> THEN references
    ELSE LET child == Head(children)
         IN ResolveChildren(
                IF child.slug = "" THEN references
                ELSE OPut(references, child.slug, child.cfr_references),
                Tail(children))

RECURSIVE ResolveAgencies(_, _)
ResolveAgencies(references, agencies) ==
    IF agencies = <<>> THEN references
    ELSE LET agency == Head(agencies)
         IN ResolveAgencies(
                IF agency.slug = "" THEN references
                ELSE ResolveChildren(
                        OPut(references, agency.slug, agency.cfr_references),
                        agency.children),
                Tail(agencies))

\* slug -> list of references, in the order the slugs are met: the
\* top-level agencies and their direct children.
_get_agency_cfr_references(doc) == ResolveAgencies(<<>>, doc.agencies)

RECURSIVE HierarchyChildren(_, _, _)
HierarchyChildren(hierarchy, parent_slug, children) ==
    IF children = <<>> THEN hierarchy
    ELSE LET child == Head(children)
         IN HierarchyChildren(
                IF child.slug # "" THEN OPut(hierarchy, child.slug, parent_slug)
                ELSE hierarchy,
                parent_slug, Tail(children))

RECURSIVE HierarchyAgencies(_, _)
HierarchyAgencies(hierarchy, agencies) ==
    IF agencies = <<>> THEN hierarchy
    ELSE LET agency == Head(agencies)
         IN HierarchyAgencies(
                IF agency.slug = "" THEN hierarchy
                ELSE HierarchyChildren(hierarchy, agency.slug, agency.children),
                Tail(agencies))

\* Every child mapped to the last top-level agency: parent_slug read after
\* the loop over the agencies has ended.
HierarchyUnderLastAgency(doc) ==
    LET h    == HierarchyAgencies(<<>>, doc.agencies)
        tops == SelectSeq(doc.agencies, LAMBDA a : a.slug # "")
    IN [i \in 1..Len(h) |-> [k |-> h[i].k, v |-> tops[Len(tops)].slug]]

\* child slug -> parent slug, for the direct children of the top level.
_build_agency_hierarchy(doc) == HierarchyAgencies(<<>>, doc.agencies)

\* Every node of the document, at any depth.
RECURSIVE NodesOf(_)
NodesOf(agencies) ==
    IF agencies = <<>> THEN {}
    ELSE {Head(agencies)} \cup NodesOf(Head(agencies).children)
                          \cup NodesOf(Tail(agencies))

(***************************************************************************)
(* The metric analyzers                                                    *)
(***************************************************************************)
STOPWORDS == {"the", "a", "of", "shall"}

BUREAUCRACY_WORDS == {"compliance", "form", "report"}

\* An analysis function returns a result or None: <<result>> or <<>>.
None == <<>>

CountWords(text, words) == Cardinality({i \in 1..Len(text) : text[i].word \in words})

_tokenize_text(text) == SelectSeq(text, LAMBDA tok : tok.word \notin STOPWORDS)

_word_count_analysis_function(agency_slug, ref_text, ref_desc) ==
    IF ref_text = <<>> THEN None
    ELSE << [count |-> Len(_tokenize_text(ref_text)), description |-> ref_desc] >>

\* Counter(pattern.findall(text.lower())): keyword -> occurrences, for the
\* keywords that occur.
_count_keyword_matches(text, keywords) ==
    [w \in {k \in keywords : CountWords(text, {k}) > 0} |-> CountWords(text, {w})]

_footprint_analysis_function(agency_slug, ref_text, ref_desc, keywords) ==
    IF ref_text = <<>> THEN None
    ELSE LET match_counter == _count_keyword_matches(ref_text, keywords)
             total_matches == SumSeq([i \in 1..Len(SetToSeq(DOMAIN match_counter)) |->
                                        match_counter[SetToSeq(DOMAIN match_counter)[i]]])
         IN IF total_matches = 0 THEN None
            ELSE << [total_matches   |-> total_matches,
                     keyword_matches |-> match_counter,
                     description     |-> ref_desc] >>

(***************************************************************************)
(* The analyzer classes: which base class's _process_agency_references     *)
(* runs, with how many arguments it calls the analysis function, and how   *)
(* many parameters the function plugged in takes.                          *)
(***************************************************************************)
WordCount         == "backend.WordCountAnalyzer"
FootprintBackend  == "backend.FootprintAnalyzer"
FootprintProcData == "process_data.FootprintAnalyzer"

Analyzers == {WordCount, FootprintBackend, FootprintProcData}

\* analysis_function(agency_slug, ref_key, ref_text, ref_desc) in backend,
\* analysis_function(agency_slug, ref_text, ref_desc) in process_data.
CallArgs(an) == IF an = FootprintProcData THEN 3 ELSE 4

\* The parameters of the function each class passes in.
FnParams(an) == IF an = FootprintBackend THEN 4 ELSE 3

\* The call of the analysis function; a call with the wrong number of
\* arguments is a TypeError.
CallRaises(an) == CallArgs(an) # FnParams(an)

analysis_function(an, agency_slug, ref_text, ref_desc) ==
    IF an = WordCount
    THEN _word_count_analysis_function(agency_slug, ref_text, ref_desc)
    ELSE _footprint_analysis_function(agency_slug, ref_text, ref_desc, BUREAUCRACY_WORDS)

(***************************************************************************)
(* State                                                                   *)
(***************************************************************************)
VARIABLES
    agencies_data,                 \* the agency document (agencies.json)
    analyzer,                      \* the analyzer class that runs
    pc,                            \* where the run is
    xml_data_cache,                \* title -> XML
    extracted_text_cache,          \* ref_key -> [text, desc]
    title_to_agencies,             \* title -> list of [agency, ref]
    titles_to_process,             \* the sorted titles
    ti,                            \* index of the current title
    ei,                            \* index of the current entry of the title
    processed_title_agency_pairs,
    processed_refs_for_title,
    agency_results,                \* agency -> ref_key -> result
    extract_calls,                 \* the refs _extract_text_for_reference was called with
    analysis_calls,                \* the calls of the analysis function
    output,                        \* what the analyze_... method returned
    args,                          \* the arguments of a method called on its own
    returned,                      \* what that call returned, in a 1-tuple
    load_calls                     \* the titles _load_title_data was called with

vars == <<agencies_data, analyzer, pc, xml_data_cache, extracted_text_cache,
          title_to_agencies, titles_to_process, ti, ei,
          processed_title_agency_pairs, processed_refs_for_title,
          agency_results, extract_calls, analysis_calls, output, args, returned,
          load_calls>>

(***************************************************************************)
(* Bounds and inputs                                                       *)
(***************************************************************************)
\* The references declared in the whole document by the agencies whose
\* references vary.
MaxEntries == 3

RefLists(n) == [1..n -> RefPool]

\* One top-level agency with two children, one of them with a child of its
\* own, a second top-level agency, and a node without a slug.
AgencyDoc(rp, r1, r2, rq) ==
    [agencies |->
        << Agency("p", rp,
              << Agency("c1", r1, << Agency("g", <<RefSection51>>, <<>>) >>),
                 Agency("c2", r2, <<>>) >>),
           Agency("", <<RefPart5>>, <<>>),
           Agency("q", rq, <<>>) >>]

Init ==
    /\ \E np \in 0..MaxEntries :
       \E n1 \in 0..(MaxEntries - np) :
       \E n2 \in 0..(MaxEntries - np - n1) :
       \E nq \in 0..(MaxEntries - np - n1 - n2) :
       \E rp \in RefLists(np), r1 \in RefLists(n1),
          r2 \in RefLists(n2), rq \in RefLists(nq) :
            agencies_data = AgencyDoc(rp, r1, r2, rq)
    /\ analyzer \in Analyzers
    /\ pc = "idle"
    /\ xml_data_cache = EmptyMap
    /\ extracted_text_cache = EmptyMap
    /\ title_to_agencies = EmptyMap
    /\ titles_to_process = <<>>
    /\ ti = 0
    /\ ei = 0
    /\ processed_title_agency_pairs = {}
    /\ processed_refs_for_title = {}
    /\ agency_results = <<>>
    /\ extract_calls = <<>>
    /\ analysis_calls = <<>>
    /\ output = None
    /\ args = <<>>
    /\ returned = <<>>
    /\ load_calls = <<>>

(***************************************************************************)
(* _process_agency_references                                              *)
(***************************************************************************)
\* Step 2: the entries (agency, ref) of one title, in the order of
\* agency_refs and of each agency's list.
EntriesOfTitle(agency_refs, t) ==
    FlattenSeq([i \in 1..Len(agency_refs) |->
        LET refs == agency_refs[i].v
        IN SelectSeq([j \in 1..Len(refs) |-> [agency |-> agency_refs[i].k, ref |-> refs[j]]],
                     LAMBDA e : e.ref.title = t)])

\* Only a reference with a truthy title is entered.
TitlesOf(agency_refs) ==
    {r.title : r \in UNION {Range(agency_refs[i].v) : i \in 1..Len(agency_refs)}} \ {0}

InverseMapping(agency_refs) ==
    [t \in TitlesOf(agency_refs) |-> EntriesOfTitle(agency_refs, t)]

\* Steps 1 to 3 and the sort of step 4.
StartProcessing ==
    /\ pc = "idle"
    /\ LET agency_refs == _get_agency_cfr_references(agencies_data)
       IN /\ title_to_agencies' = InverseMapping(agency_refs)
          /\ titles_to_process' = SortedSeq(TitlesOf(agency_refs))
    /\ agency_results' = <<>>
    /\ processed_title_agency_pairs' = {}
    /\ ti' = 1
    /\ pc' = "title"
    /\ UNCHANGED <<load_calls, args, returned, agencies_data, analyzer, xml_data_cache, extracted_text_cache,
                   ei, processed_refs_for_title, extract_calls, analysis_calls, output>>

\* _load_title_data: the cached XML, else the file's, cached; <<>> is None.
_load_title_data(cache, title_number) ==
    IF title_number \in DOMAIN cache
    THEN [xml |-> <<cache[title_number]>>, cache |-> cache]
    ELSE IF title_number \notin DOMAIN XmlFiles
         THEN [xml |-> None, cache |-> cache]
         ELSE [xml |-> <<XmlFiles[title_number]>>,
               cache |-> Put(cache, title_number, XmlFiles[title_number])]

\* A title without XML ends the loop over the titles.
LoadTitleOrStop ==
    /\ pc = "title"
    /\ ti <= Len(titles_to_process)
    /\ load_calls' = Append(load_calls, titles_to_process[ti])
    /\ LET loaded == _load_title_data(xml_data_cache, titles_to_process[ti])
       IN /\ xml_data_cache' = loaded.cache
          /\ IF loaded.xml = None
             THEN /\ ti' = Len(titles_to_process) + 1
                  /\ UNCHANGED <<pc, ei, processed_refs_for_title>>
             ELSE /\ processed_refs_for_title' = {}
                  /\ ei' = 1
                  /\ pc' = "entry"
                  /\ UNCHANGED ti
    /\ UNCHANGED <<args, returned, agencies_data, analyzer, extracted_text_cache,
                   title_to_agencies, titles_to_process, processed_title_agency_pairs,
                   agency_results, extract_calls, analysis_calls, output>>

\* 4.1: load the title; a title without XML is skipped.
LoadTitle ==
    /\ pc = "title"
    /\ ti <= Len(titles_to_process)
    /\ load_calls' = Append(load_calls, titles_to_process[ti])
    /\ LET loaded == _load_title_data(xml_data_cache, titles_to_process[ti])
       IN /\ xml_data_cache' = loaded.cache
          /\ IF loaded.xml = None
             THEN /\ ti' = ti + 1
                  /\ UNCHANGED <<pc, ei, processed_refs_for_title>>
             ELSE /\ processed_refs_for_title' = {}
                  /\ ei' = 1
                  /\ pc' = "entry"
                  /\ UNCHANGED ti
    /\ UNCHANGED <<args, returned, agencies_data, analyzer, extracted_text_cache,
                   title_to_agencies, titles_to_process, processed_title_agency_pairs,
                   agency_results, extract_calls, analysis_calls, output>>

\* The guard left out: no pair counts as processed.
PairNeverProcessed(pair, pairs) == FALSE

\* `agency_ref_pair in processed_title_agency_pairs`
PairProcessed(pair, pairs) == pair \in pairs

\* `ref_key in processed_refs_for_title`
ProcessedForTitle(ref_key, refs_for_title) == ref_key \in refs_for_title

\* `ref_key not in self.extracted_text_cache`, met only for a key that is
\* not in processed_refs_for_title.
MustExtract(ref_key, refs_for_title, cache) ==
    /\ ~ProcessedForTitle(ref_key, refs_for_title)
    /\ ref_key \notin DOMAIN cache

\* `if ref_text:` before the call on the path that extracts or finds the
\* key in the cache of an earlier title.
HasText(ref_text) == ref_text # <<>>

\* agency_results[agency_slug][ref_key] = result, on a defaultdict(dict):
\* agency -> (ref_key -> result), the agencies in the order of their first
\* result.
StoreResult(results, agency_slug, ref_key, result) ==
    OPut(results, agency_slug,
         Put(IF HasKey(results, agency_slug) THEN Get(results, agency_slug) ELSE EmptyMap,
             ref_key, result))

\* result = analysis_function(...); if result: store it.
Invoke(an, results, agency_slug, ref_key, ref_text, ref_desc) ==
    IF CallRaises(an)
    THEN [results |-> results, calls |-> <<>>, raised |-> TRUE]
    ELSE LET result == analysis_function(an, agency_slug, ref_text, ref_desc)
         IN [results |-> IF result # None
                         THEN StoreResult(results, agency_slug, ref_key, result[1])
                         ELSE results,
             calls   |-> <<[agency |-> agency_slug, key |-> ref_key, text |-> ref_text]>>,
             raised  |-> FALSE]

NoCall(results) == [results |-> results, calls |-> <<>>, raised |-> FALSE]

\* One pass of the loop 4.2 over an entry (agency_slug, ref) of title t
\* whose XML is doc.
EntryStep(an, t, doc, e, pairs, refs_for_title, cache, results) ==
    LET ref_key == _create_ref_key(e.ref)
        pair    == <<e.agency, ref_key>>
    IN IF PairProcessed(pair, pairs)
       THEN [pairs |-> pairs, refs_for_title |-> refs_for_title, cache |-> cache,
             extracted |-> <<>>, inv |-> NoCall(results)]
       ELSE IF ProcessedForTitle(ref_key, refs_for_title)
       THEN \* reuse the cached text: the call is made without looking at it
            [pairs |-> pairs \cup {pair}, refs_for_title |-> refs_for_title,
             cache |-> cache, extracted |-> <<>>,
             inv |-> IF ref_key \in DOMAIN cache
                     THEN Invoke(an, results, e.agency, ref_key,
                                 cache[ref_key].text, cache[ref_key].desc)
                     ELSE NoCall(results)]
       ELSE IF MustExtract(ref_key, refs_for_title, cache)
       THEN LET ex == _extract_text_for_reference(t, doc, e.ref, NoFaults)
            IN [pairs |-> pairs \cup {pair},
                refs_for_title |-> refs_for_title \cup {ref_key},
                cache |-> Put(cache, ref_key, ex),
                extracted |-> <<e.ref>>,
                inv |-> IF HasText(ex.text)
                        THEN Invoke(an, results, e.agency, ref_key, ex.text, ex.desc)
                        ELSE NoCall(results)]
       ELSE [pairs |-> pairs \cup {pair}, refs_for_title |-> refs_for_title,
             cache |-> cache, extracted |-> <<>>,
             inv |-> IF HasText(cache[ref_key].text)
                     THEN Invoke(an, results, e.agency, ref_key,
                                 cache[ref_key].text, cache[ref_key].desc)
                     ELSE NoCall(results)]

CurrentTitle == titles_to_process[ti]

CurrentEntries == title_to_agencies[CurrentTitle]

\* 4.2: one entry of the current title.  A TypeError of the call ends the
\* run of the analyzer.
ProcessEntry ==
    /\ pc = "entry"
    /\ ei <= Len(CurrentEntries)
    /\ LET st == EntryStep(analyzer, CurrentTitle, xml_data_cache[CurrentTitle],
                           CurrentEntries[ei], processed_title_agency_pairs,
                           processed_refs_for_title, extracted_text_cache,
                           agency_results)
       IN /\ processed_title_agency_pairs' = st.pairs
          /\ processed_refs_for_title' = st.refs_for_title
          /\ extracted_text_cache' = st.cache
          /\ extract_calls' = extract_calls \o st.extracted
          /\ analysis_calls' = analysis_calls \o st.inv.calls
          /\ agency_results' = st.inv.results
          /\ IF st.inv.raised
             THEN pc' = "raised" /\ UNCHANGED ei
             ELSE pc' = pc /\ ei' = ei + 1
    /\ UNCHANGED <<load_calls, args, returned, agencies_data, analyzer, xml_data_cache, title_to_agencies,
                   titles_to_process, ti, output>>

\* `len(titles_to_process) > 5`
EvictThreshold == 5

\* The XML of a title leaves the cache when more than the threshold of
\* titles come after it.
FreeWhenManyRemain(cache, titles, n) ==
    IF titles[n] \in DOMAIN cache /\ Len(titles) - n > EvictThreshold
    THEN [t \in DOMAIN cache \ {titles[n]} |-> cache[t]]
    ELSE cache

\* `if title_num in self.xml_data_cache and len(titles_to_process) > 5:
\*      del self.xml_data_cache[title_num]`, title_num the n-th title.
FreeMemory(cache, titles, n) ==
    IF titles[n] \in DOMAIN cache /\ Len(titles) > EvictThreshold
    THEN [t \in DOMAIN cache \ {titles[n]} |-> cache[t]]
    ELSE cache

\* The texts extracted so far are dropped with the XML.
EndTitleDroppingTexts ==
    /\ pc = "entry"
    /\ ei > Len(CurrentEntries)
    /\ xml_data_cache' = FreeMemory(xml_data_cache, titles_to_process, ti)
    /\ extracted_text_cache' =
          IF xml_data_cache' # xml_data_cache THEN EmptyMap ELSE extracted_text_cache
    /\ ti' = ti + 1
    /\ pc' = "title"
    /\ UNCHANGED <<load_calls, args, returned, agencies_data, analyzer, title_to_agencies,
                   titles_to_process, ei, processed_title_agency_pairs,
                   processed_refs_for_title, agency_results, extract_calls,
                   analysis_calls, output>>

\* After the entries of a title: its XML leaves xml_data_cache when many
\* titles are processed.
EndTitle ==
    /\ pc = "entry"
    /\ ei > Len(CurrentEntries)
    /\ xml_data_cache' = FreeMemory(xml_data_cache, titles_to_process, ti)
    /\ ti' = ti + 1
    /\ pc' = "title"
    /\ UNCHANGED <<load_calls, args, returned, agencies_data, analyzer, extracted_text_cache, title_to_agencies,
                   titles_to_process, ei, processed_title_agency_pairs,
                   processed_refs_for_title, agency_results, extract_calls,
                   analysis_calls, output>>

\* return agency_results
EndProcessing ==
    /\ pc = "title"
    /\ ti > Len(titles_to_process)
    /\ pc' = "processed"
    /\ UNCHANGED <<load_calls, args, returned, agencies_data, analyzer, xml_data_cache, extracted_text_cache,
                   title_to_agencies, titles_to_process, ti, ei,
                   processed_title_agency_pairs, processed_refs_for_title,
                   agency_results, extract_calls, analysis_calls, output>>

(***************************************************************************)
(* _roll_up_agency_totals                                                  *)
(*                                                                         *)
(* agency_data maps a slug to a dict that may hold metric_key and          *)
(* "references" (ref_key -> dict of the reference).  Dicts with string     *)
(* keys are functions on strings.                                          *)
(***************************************************************************)
Has(d, k) == k \in DOMAIN d

\* ref_data_key=None
NoKey == ""

\* parent -> list of children, from the child -> parent map.
RECURSIVE ParentToChildren(_, _)
ParentToChildren(p2c, hierarchy) ==
    IF hierarchy = <<>> THEN p2c
    ELSE LET child  == Head(hierarchy).k
             parent == Head(hierarchy).v
         IN ParentToChildren(
                OPut(p2c, parent,
                     Append(IF HasKey(p2c, parent) THEN Get(p2c, parent) ELSE <<>>, child)),
                Tail(hierarchy))

\* The keys each agency holds when the rollup starts.
AgencyRefKeys(data) ==
    [a \in DOMAIN data |->
        IF Has(data[a], "references") THEN DOMAIN data[a]["references"] ELSE {}]

\* The body of `for ref_key in new_refs`.
AddChildRef(data, parent, child, ref_key, metric_key, ref_data_key) ==
    IF ~Has(data[child], "references") THEN data
    ELSE IF ref_key \notin DOMAIN data[child]["references"] THEN data
    ELSE
    LET child_ref_data == data[child]["references"][ref_key]
        prefs0 == IF Has(data[parent], "references")
                  THEN data[parent]["references"] ELSE EmptyMap
        prefs1 == IF ref_key \in DOMAIN prefs0 THEN prefs0
                  ELSE Put(prefs0, ref_key, EmptyMap)
        p1     == Put(data[parent], "references", prefs1)
    IN IF ref_data_key # NoKey
       THEN IF ~Has(child_ref_data, ref_data_key)
            THEN Put(data, parent, p1)
            ELSE LET v     == child_ref_data[ref_data_key]
                     old   == IF Has(prefs1[ref_key], ref_data_key)
                              THEN prefs1[ref_key][ref_data_key] ELSE 0
                     prefs2 == Put(prefs1, ref_key,
                                   Put(prefs1[ref_key], ref_data_key, old + v))
                     tot   == IF Has(p1, metric_key) THEN p1[metric_key] ELSE 0
                 IN Put(data, parent,
                        Put(Put(p1, "references", prefs2), metric_key, tot + v))
       ELSE LET p2 == Put(p1, "references", Put(prefs1, ref_key, child_ref_data))
            IN Put(data, parent,
                   IF Has(child_ref_data, metric_key) /\ Has(p2, metric_key)
                   THEN Put(p2, metric_key, p2[metric_key] + child_ref_data[metric_key])
                   ELSE p2)

RECURSIVE AddChildRefs(_, _, _, _, _, _)
AddChildRefs(data, parent, child, new_refs, metric_key, ref_data_key) ==
    IF new_refs = <<>> THEN data
    ELSE AddChildRefs(
            AddChildRef(data, parent, child, Head(new_refs), metric_key, ref_data_key),
            parent, child, Tail(new_refs), metric_key, ref_data_key)

\* The update after a child left out.
CountedNotUpdated(counted_refs, new_refs) == counted_refs

\* `counted_refs.update(new_refs)` after a child
CountedAfterChild(counted_refs, new_refs) == counted_refs \cup new_refs

\* The parent's own keys not taken as counted.
NothingCounted(agency_refs, parent) == {}

\* `counted_refs = set(agency_refs.get(parent_agency, set()))`
InitialCounted(agency_refs, parent) ==
    IF parent \in DOMAIN agency_refs THEN agency_refs[parent] ELSE {}

RECURSIVE RollUpChildren(_, _, _, _, _, _, _)
\* The loop over the children of one parent; the result is the data.
RollUpChildren(data, agency_refs, parent, children, counted_refs, metric_key, ref_data_key) ==
    IF children = <<>> THEN data
    ELSE LET child == Head(children)
         IN IF child \notin DOMAIN data
            THEN RollUpChildren(data, agency_refs, parent, Tail(children),
                                counted_refs, metric_key, ref_data_key)
            ELSE LET new_refs == agency_refs[child] \ counted_refs
                 IN RollUpChildren(
                        AddChildRefs(data, parent, child, SetToSeq(new_refs),
                                     metric_key, ref_data_key),
                        agency_refs, parent, Tail(children),
                        CountedAfterChild(counted_refs, new_refs),
                        metric_key, ref_data_key)

RECURSIVE RollUpParents(_, _, _, _, _)
RollUpParents(data, agency_refs, p2c, metric_key, ref_data_key) ==
    IF p2c = <<>> THEN data
    ELSE LET parent == Head(p2c).k
         IN RollUpParents(
                IF parent \notin DOMAIN data THEN data
                ELSE RollUpChildren(data, agency_refs, parent, Head(p2c).v,
                                    InitialCounted(agency_refs, parent),
                                    metric_key, ref_data_key),
                agency_refs, Tail(p2c), metric_key, ref_data_key)

SumOver(refs, key) ==
    LET ks == SetToSeq({k \in DOMAIN refs : Has(refs[k], key)})
    IN SumSeq([i \in 1..Len(ks) |-> refs[ks[i]][key]])

\* The sum taken over metric_key where ref_data_key is meant.
RecomputeByMetricKey(data, metric_key, ref_data_key) ==
    [a \in DOMAIN data |->
        IF Has(data[a], "references")
        THEN Put(data[a], metric_key, SumOver(data[a]["references"], metric_key))
        ELSE data[a]]

\* The totals of every agency, from its references.
RecomputeTotals(data, metric_key, ref_data_key) ==
    [a \in DOMAIN data |->
        IF Has(data[a], "references")
        THEN Put(data[a], metric_key,
                 SumOver(data[a]["references"],
                         IF ref_data_key # NoKey THEN ref_data_key ELSE metric_key))
        ELSE data[a]]

_roll_up_agency_totals(doc, agency_data, metric_key, ref_data_key) ==
    LET parent_to_children == ParentToChildren(<<>>, _build_agency_hierarchy(doc))
        agency_refs        == AgencyRefKeys(agency_data)
    IN RecomputeTotals(
            RollUpParents(agency_data, agency_refs, parent_to_children,
                          metric_key, ref_data_key),
            metric_key, ref_data_key)

(***************************************************************************)
(* analyze_word_count_by_agency and analyze_keyword_footprint: what        *)
(* follows _process_agency_references                                      *)
(***************************************************************************)
\* sum(data[field] for data in ref_counts.values())
AgencyTotal(ref_counts, field) == SumOver(ref_counts, field)

RECURSIVE CountKeysOnce(_, _, _, _)
\* The inner loop of the unique total over the keys of one agency;
\* acc = [counted_refs, title_totals].
CountKeysOnce(acc, ref_counts, keys, field) ==
    IF keys = <<>> THEN acc
    ELSE LET ref_key == Head(keys)
         IN CountKeysOnce(
                IF ref_key \notin acc.counted_refs
                THEN [counted_refs |-> acc.counted_refs \cup {ref_key},
                      title_totals |->
                        Put(acc.title_totals, ref_key[1],
                            (IF ref_key[1] \in DOMAIN acc.title_totals
                             THEN acc.title_totals[ref_key[1]] ELSE 0)
                            + ref_counts[ref_key][field])]
                ELSE acc,
                ref_counts, Tail(keys), field)

RECURSIVE CountAgenciesOnce(_, _, _)
CountAgenciesOnce(acc, agency_ref_counts, field) ==
    IF agency_ref_counts = <<>> THEN acc
    ELSE CountAgenciesOnce(
            CountKeysOnce(acc, Head(agency_ref_counts).v,
                          SetToSeq(DOMAIN Head(agency_ref_counts).v), field),
            Tail(agency_ref_counts), field)

\* title -> total, each ref_key counted for the first agency that has it.
TitleTotals(agency_ref_counts, field) ==
    CountAgenciesOnce([counted_refs |-> {}, title_totals |-> EmptyMap],
                      agency_ref_counts, field).title_totals

SumValues(f) ==
    LET ks == SetToSeq(DOMAIN f) IN SumSeq([i \in 1..Len(ks) |-> f[ks[i]]])

\* The agency data handed to the rollup.
AgencyData(agency_ref_counts, field) ==
    [a \in Range(Keys(agency_ref_counts)) |->
        [total      |-> AgencyTotal(Get(agency_ref_counts, a), field),
         references |-> Get(agency_ref_counts, a)]]

\* process_data FootprintAnalyzer.analyze_keyword_footprint after the
\* processing.
FootprintData(doc, agency_ref_matches) ==
    LET title_totals == TitleTotals(agency_ref_matches, "total_matches")
    IN [total          |-> SumValues(title_totals),
        title_totals   |-> title_totals,
        agencies       |-> _roll_up_agency_totals(doc,
                               AgencyData(agency_ref_matches, "total_matches"),
                               "total", "total_matches")]

\* WordCountAnalyzer.analyze_word_count_by_agency after the processing:
\* the totals are local values, and the call self._roll_up_agency_totals
\* ends the method before word_count_data is built: the class derives from
\* backend's BaseECFRAnalyzer, which defines no such method
\* (AttributeError).
AnalyzeWordCount ==
    /\ pc = "processed"
    /\ analyzer = WordCount
    /\ output' = None
    /\ pc' = "raised"
    /\ UNCHANGED <<load_calls, args, returned, agencies_data, analyzer, xml_data_cache, extracted_text_cache,
                   title_to_agencies, titles_to_process, ti, ei,
                   processed_title_agency_pairs, processed_refs_for_title,
                   agency_results, extract_calls, analysis_calls>>

AnalyzeFootprint ==
    /\ pc = "processed"
    /\ analyzer = FootprintProcData
    /\ output' = <<FootprintData(agencies_data, agency_results)>>
    /\ pc' = "done"
    /\ UNCHANGED <<load_calls, args, returned, agencies_data, analyzer, xml_data_cache, extracted_text_cache,
                   title_to_agencies, titles_to_process, ti, ei,
                   processed_title_agency_pairs, processed_refs_for_title,
                   agency_results, extract_calls, analysis_calls>>

(***************************************************************************)
(* The specification                                                       *)
(***************************************************************************)
Next ==
    \/ StartProcessing
    \/ LoadTitle
    \/ ProcessEntry
    \/ EndTitle
    \/ EndProcessing
    \/ AnalyzeWordCount
    \/ AnalyzeFootprint

Spec == Init /\ [][Next]_vars

(***************************************************************************)
(* Runs over many titles                                                   *)
(***************************************************************************)
\* The least number of titles of such a run.
MinTitles == 4

\* The reference an agency has to title t.
RefOfTitle(t) ==
    IF t = 1 THEN RefChapterI
    ELSE IF t = 2 THEN RefNoFile
    ELSE IF t = 3 THEN RefEmpty9
    ELSE MkRef(t, NoStr, NoStr, NoStr)

\* One agency citing MinTitles or more of the titles 1..MaxTitle.
InitManyTitles ==
    /\ \E T \in {S \in SUBSET (1..MaxTitle) : Cardinality(S) >= MinTitles} :
          LET ts == SortedSeq(T)
          IN agencies_data = AgencyDoc([i \in 1..Len(ts) |-> RefOfTitle(ts[i])],
                                       <<>>, <<>>, <<>>)
    /\ analyzer \in Analyzers
    /\ pc = "idle"
    /\ xml_data_cache = EmptyMap
    /\ extracted_text_cache = EmptyMap
    /\ title_to_agencies = EmptyMap
    /\ titles_to_process = <<>>
    /\ ti = 0
    /\ ei = 0
    /\ processed_title_agency_pairs = {}
    /\ processed_refs_for_title = {}
    /\ agency_results = <<>>
    /\ extract_calls = <<>>
    /\ analysis_calls = <<>>
    /\ output = None
    /\ args = <<>>
    /\ returned = <<>>
    /\ load_calls = <<>>

SpecManyTitles == InitManyTitles /\ [][Next]_vars

(***************************************************************************)
(* Properties                                                              *)
(***************************************************************************)
\* The ReferenceKey of the data model: a reference up to its part.
ReferenceKey(ref) == <<ref.title, ref.subtitle, ref.chapter, ref.subchapter, ref.part>>

\* The run of _process_agency_references has returned.
Processed == pc \in {"processed", "done"}

\* The entries the run works on, of the titles whose XML loads.
LoadedEntries ==
    UNION {Range(title_to_agencies[t]) : t \in DOMAIN title_to_agencies \cap DOMAIN XmlFiles}

NoDuplicates(s) == \A i, j \in 1..Len(s) : i # j => s[i] # s[j]

\* C1: in one run, the extractor is called at most once for each distinct
\* ReferenceKey, and when the run has returned it has been called exactly
\* once for each distinct key of a title whose XML loads: the calls are as
\* many as the distinct keys, however many (agency, reference) pairs share
\* a key.
C1_ExtractOncePerKey ==
    LET called == [i \in 1..Len(extract_calls) |-> ReferenceKey(extract_calls[i])]
    IN /\ NoDuplicates(called)
       /\ Processed =>
            /\ Range(called) = {ReferenceKey(e.ref) : e \in LoadedEntries}
            /\ Len(extract_calls) = Cardinality({ReferenceKey(e.ref) : e \in LoadedEntries})

\* Two agencies declare the same key, one of them twice over (through
\* references that differ below the part), and the run has returned with
\* fewer extractions than entries.
C1_Witness ==
    /\ Processed
    /\ \E e1, e2, e3 \in LoadedEntries :
          /\ e1.agency # e2.agency
          /\ e2.agency = e3.agency
          /\ e2.ref # e3.ref
          /\ ReferenceKey(e1.ref) = ReferenceKey(e2.ref)
          /\ ReferenceKey(e2.ref) = ReferenceKey(e3.ref)
    /\ Len(extract_calls) = 1

\* C2: in one run, the analysis function is invoked at most once for each
\* (agency, ReferenceKey) pair.
C2_AnalysisOncePerPair ==
    NoDuplicates([i \in 1..Len(analysis_calls) |->
                    <<analysis_calls[i].agency, analysis_calls[i].key>>])

\* An agency declares two references with one key, the run has returned
\* and the function was invoked for that pair.
C2_Witness ==
    /\ Processed
    /\ \E e1, e2 \in LoadedEntries :
          /\ e1.agency = e2.agency
          /\ e1.ref # e2.ref
          /\ ReferenceKey(e1.ref) = ReferenceKey(e2.ref)
          /\ \E i \in 1..Len(analysis_calls) :
                /\ analysis_calls[i].agency = e1.agency
                /\ analysis_calls[i].key = ReferenceKey(e1.ref)

\* C8: the analysis function is invoked only with non-empty text.
C8_CallsHaveText ==
    \A i \in 1..Len(analysis_calls) : analysis_calls[i].text # <<>>

\* C10: the resolver returns one entry for every agency node with a
\* non-empty slug, at any depth, holding that node's own references.
C10_EveryNodeResolved ==
    LET references == _get_agency_cfr_references(agencies_data)
    IN \A node \in NodesOf(agencies_data.agencies) :
          node.slug # "" =>
             /\ HasKey(references, node.slug)
             /\ Get(references, node.slug) = node.cfr_references

(***************************************************************************)
(* Properties of the rollup, on the data the footprint pipeline of         *)
(* process_data hands to it                                                *)
(***************************************************************************)
AllNodes == NodesOf(agencies_data.agencies)

\* The direct children of the agency with the slug, by the document.
ChildSlugs(slug) ==
    {c.slug : c \in UNION {Range(n.children) : n \in {m \in AllNodes : m.slug = slug}}} \ {""}

\* The keys of the references the agency with the slug declares.
DeclaredKeys(slug) ==
    {ReferenceKey(r) : r \in UNION {Range(n.cfr_references) : n \in {m \in AllNodes : m.slug = slug}}}

RECURSIVE SumOfSet(_, _)
\* The sum of f[k] over the keys k of the set.
SumOfSet(f, S) ==
    IF S = {} THEN 0
    ELSE LET k == CHOOSE x \in S : TRUE IN f[k] + SumOfSet(f, S \ {k})

FootprintDone == pc = "done" /\ analyzer = FootprintProcData

\* What the rollup was given and what it returned.
RollupInput == AgencyData(agency_results, "total_matches")

RollupOutput == output[1].agencies

InputKeys(a) == IF a \in DOMAIN RollupInput THEN DOMAIN RollupInput[a].references ELSE {}

\* The value of the key under the first of the agencies that holds it.
ValueUnder(agencies, k) ==
    LET a == CHOOSE x \in agencies : k \in InputKeys(x)
    IN RollupInput[a].references[k].total_matches

\* P is in the data and two of its children, also in the data, both hold R
\* with one value, and P does not hold R.
SharedByTwoChildren(P, c1, c2, R) ==
    /\ P \in DOMAIN RollupInput
    /\ {c1, c2} \subseteq ChildSlugs(P) \cap DOMAIN RollupInput
    /\ c1 # c2
    /\ R \in (InputKeys(c1) \cap InputKeys(c2)) \ InputKeys(P)
    /\ RollupInput[c1].references[R].total_matches
         = RollupInput[c2].references[R].total_matches

\* C3: a reference R that two children of P both hold with value v, and P
\* does not, is in P's rolled-up references with value v, not 2v, and P's
\* total holds v once: the total is P's own values and, once each, the
\* values of the keys its children add.
C3_SharedChildKeyOnce ==
    FootprintDone =>
      \A P \in DOMAIN RollupInput : \A c1, c2 \in ChildSlugs(P) : \A R \in InputKeys(c1) :
        SharedByTwoChildren(P, c1, c2, R) =>
          LET kids  == ChildSlugs(P) \cap DOMAIN RollupInput
              added == UNION {InputKeys(c) : c \in kids} \ InputKeys(P)
          IN /\ RollupOutput[P].references[R].total_matches
                  = RollupInput[c1].references[R].total_matches
             /\ RollupOutput[P].total
                  = SumOfSet([k \in InputKeys(P) |-> RollupInput[P].references[k].total_matches],
                             InputKeys(P))
                    + SumOfSet([k \in added |-> ValueUnder(kids, k)], added)

C3_Witness ==
    /\ FootprintDone
    /\ \E P \in DOMAIN RollupInput : \E c1, c2 \in ChildSlugs(P) : \E R \in InputKeys(c1) :
          /\ SharedByTwoChildren(P, c1, c2, R)
          /\ RollupInput[c1].references[R].total_matches > 0
          /\ R \in DOMAIN RollupOutput[P].references

\* C4: after the rollup every agency with a references map, parent or
\* leaf, has as its total the sum of the metric of its references.
C4_TotalIsSumOfReferences ==
    FootprintDone =>
      \A a \in DOMAIN RollupOutput :
        Has(RollupOutput[a], "references") =>
          LET refs == RollupOutput[a].references
              with == {k \in DOMAIN refs : Has(refs[k], "total_matches")}
          IN RollupOutput[a].total
               = SumOfSet([k \in with |-> refs[k].total_matches], with)

\* A parent that gained a reference from a child, and a leaf, both with
\* totals above zero.
C4_Witness ==
    /\ FootprintDone
    /\ \E P \in DOMAIN RollupOutput : \E c \in ChildSlugs(P) \cap DOMAIN RollupOutput :
          /\ DOMAIN RollupOutput[P].references # InputKeys(P)
          /\ RollupOutput[P].total > RollupInput[P].total
          /\ RollupOutput[c].total > 0

(***************************************************************************)
(* Properties of the whole pipelines                                       *)
(***************************************************************************)
\* The run of the analyzer has ended, with its output or with an error.
Ended == pc \in {"done", "raised"}

\* The text the extractor gives for a reference of a title with XML.
TextOf(ref) ==
    _extract_text_for_reference(ref.title, XmlFiles[ref.title], ref, NoFaults).text

\* The child's references all have the key of its first one, the title has
\* XML and the text is not empty: the child has one result, for that key.
HasOneResult(child) ==
    /\ child.slug # ""
    /\ child.cfr_references # <<>>
    /\ \A r \in Range(child.cfr_references) :
          ReferenceKey(r) = ReferenceKey(child.cfr_references[1])
    /\ child.cfr_references[1].title \in DOMAIN XmlFiles
    /\ TextOf(child.cfr_references[1]) # <<>>

\* C5: in the word-count pipeline, when a child has a result with total t
\* for key R (and is the only child with references) and its parent
\* declares no references, the output has the parent with total t and with
\* R in its references at the child's value.
C5_ParentGetsChildTotal ==
    (analyzer = WordCount /\ Ended) =>
      \A P \in Range(agencies_data.agencies) : \A i \in 1..Len(P.children) :
        LET child == P.children[i]
        IN ( /\ P.slug # ""
             /\ P.cfr_references = <<>>
             /\ HasOneResult(child)
             /\ \A j \in 1..Len(P.children) : j # i => P.children[j].cfr_references = <<>> )
           => LET R == ReferenceKey(child.cfr_references[1])
                  t == Len(_tokenize_text(TextOf(child.cfr_references[1])))
              IN /\ output # None
                 /\ P.slug \in DOMAIN output[1].agencies
                 /\ output[1].agencies[P.slug].total = t
                 /\ R \in DOMAIN output[1].agencies[P.slug].references
                 /\ output[1].agencies[P.slug].references[R].count = t

\* The keyword occurrences of the text, each named by its place in the XML.
Occurrences(text) ==
    {text[i].src : i \in {j \in 1..Len(text) : text[j].word \in BUREAUCRACY_WORDS}}

\* The agencies whose references reach P's rolled-up data: P and its
\* children with data.
Contributors(P) == {P} \cup (ChildSlugs(P) \cap DOMAIN RollupInput)

\* Two of the contributors hold different keys whose texts share an
\* occurrence.
CiteOverlappingText(P) ==
    \E a1, a2 \in Contributors(P) : \E k1 \in InputKeys(a1) : \E k2 \in InputKeys(a2) :
        /\ a1 # a2
        /\ k1 # k2
        /\ Occurrences(extracted_text_cache[k1].text)
             \cap Occurrences(extracted_text_cache[k2].text) # {}

C7_TotalOverDistinctKeys ==
    (analyzer = WordCount /\ Ended) =>
      LET keys == {k \in DOMAIN extracted_text_cache : extracted_text_cache[k].text # <<>>}
      IN keys # {} =>
         /\ output # None
         /\ output[1].total
              = SumOfSet([k \in keys |-> Len(_tokenize_text(extracted_text_cache[k].text))],
                         keys)
         /\ output[1].total = SumValues(output[1].title_totals)

\* C9: every key of an agency's result map is the key of a reference the
\* agency declares, and every key of its rolled-up references is the key of
\* a reference that it or one of its children declares.
C9_KeysAreDeclared ==
    /\ \A i \in 1..Len(agency_results) :
          DOMAIN agency_results[i].v \subseteq DeclaredKeys(agency_results[i].k)
    /\ FootprintDone =>
         \A a \in DOMAIN RollupOutput :
            DOMAIN RollupOutput[a].references
              \subseteq DeclaredKeys(a) \cup UNION {DeclaredKeys(c) : c \in ChildSlugs(a)}

\* A parent holds, after the rollup, a key that only a child declares, and
\* another agency with results declares neither.
C9_Witness ==
    /\ FootprintDone
    /\ \E P, q \in DOMAIN RollupOutput :
          /\ DOMAIN RollupOutput[P].references \ DeclaredKeys(P) # {}
          /\ ChildSlugs(q) = {}
          /\ q \notin ChildSlugs(P)

(***************************************************************************)
(* Methods called on their own: the arguments are drawn from bounded sets, *)
(* the call returns, and the analyzer's run is not started.                *)
(***************************************************************************)
\* The analyzer as constructed, before any run, for the document.
Constructed(doc) ==
    /\ agencies_data = doc
    /\ analyzer = FootprintProcData
    /\ xml_data_cache = EmptyMap
    /\ extracted_text_cache = EmptyMap
    /\ title_to_agencies = EmptyMap
    /\ titles_to_process = <<>>
    /\ ti = 0
    /\ ei = 0
    /\ processed_title_agency_pairs = {}
    /\ processed_refs_for_title = {}
    /\ agency_results = <<>>
    /\ extract_calls = <<>>
    /\ analysis_calls = <<>>
    /\ output = None
    /\ load_calls = <<>>

\* The call returns the value.
Return(value) ==
    /\ pc = "call"
    /\ returned' = <<value>>
    /\ pc' = "returned"
    /\ UNCHANGED <<load_calls, args, agencies_data, analyzer, xml_data_cache, extracted_text_cache,
                   title_to_agencies, titles_to_process, ti, ei,
                   processed_title_agency_pairs, processed_refs_for_title,
                   agency_results, extract_calls, analysis_calls, output>>

(***************************************************************************)
(* _roll_up_agency_totals on its own                                       *)
(***************************************************************************)
\* The largest metric of one reference.
MaxMetric == 2

\* The keys of the agency data.
RollUpKeys == {_create_ref_key(RefChapterI), _create_ref_key(RefPart5)}

\* The references maps: key -> [total_matches], over some of the keys.
ReferenceMaps ==
    UNION {[K -> [total_matches : 1..MaxMetric]] : K \in SUBSET RollUpKeys}

\* The data of one agency as the analyze_... methods build it.
DataOf(refs) == [total |-> SumOver(refs, "total_matches"), references |-> refs]

\* The agency data: some of the agencies of the document, each with a
\* references map.
AgencyDataSets ==
    UNION {[A -> {DataOf(refs) : refs \in ReferenceMaps}] :
              A \in SUBSET {"p", "c1", "g"}}

InitRollUp ==
    /\ Constructed(AgencyDoc(<<>>, <<>>, <<>>, <<>>))
    /\ pc = "call"
    /\ args \in [agency_data : AgencyDataSets]
    /\ returned = <<>>

\* The rollup works on the object it was given.
WorkedInPlace(agency_data, updated_agency_data) == updated_agency_data

\* The caller's agency_data after the call: the rollup works on
\* copy.deepcopy(agency_data), so the object it was given stays as it was.
AfterDeepCopy(agency_data, updated_agency_data) == agency_data

CallRollUp ==
    /\ pc = "call"
    /\ LET updated_agency_data ==
              _roll_up_agency_totals(agencies_data, args.agency_data,
                                     "total", "total_matches")
       IN /\ returned' = <<updated_agency_data>>
          /\ args' = [args EXCEPT
                        !.agency_data = AfterDeepCopy(args.agency_data, updated_agency_data)]
    /\ pc' = "returned"
    /\ UNCHANGED <<load_calls, agencies_data, analyzer, xml_data_cache,
                   extracted_text_cache, title_to_agencies, titles_to_process, ti, ei,
                   processed_title_agency_pairs, processed_refs_for_title,
                   agency_results, extract_calls, analysis_calls, output>>

NextRollUp == CallRollUp

SpecRollUp == InitRollUp /\ [][NextRollUp]_vars

\* The slugs of the nodes below the agency with the slug, at any depth.
DescendantSlugs(slug) ==
    {d.slug : d \in UNION {NodesOf(n.children) : n \in {m \in AllNodes : m.slug = slug}}}
        \ {""}

\* C11: the rollup gives every agency of the data every reference that an
\* agency below it in the document, child or grandchild, holds in the data.
C11_DescendantsReachAncestor ==
    pc = "returned" =>
      \A A \in DOMAIN args.agency_data :
        \A D \in DescendantSlugs(A) \cap DOMAIN args.agency_data :
          DOMAIN args.agency_data[D].references
            \subseteq DOMAIN returned[1][A].references

(***************************************************************************)
(* _create_ref_key on its own.  A reference is a dict: a function on the   *)
(* fields it has.                                                          *)
(***************************************************************************)
KeyFields == {"title", "subtitle", "chapter", "subchapter", "part"}

\* The values a field of a reference may have.
TitleValues == {1}

FieldValues(field) ==
    CASE field = "subtitle"   -> {<<"A">>}
      [] field = "chapter"    -> {<<"I">>}
      [] field = "subchapter" -> {<<"A">>}
      [] field = "part"       -> {<<"5">>, <<"9">>}
      [] field = "section"    -> {<<"5", ".", "1">>}
      [] OTHER                -> {}

\* The references with some of the fields, each with one of its values.
ReferenceDicts ==
    LET titles  == {<<>>} \cup {("title" :> t) : t \in TitleValues}
        strings == UNION {{r \in [F -> UNION {FieldValues(f) : f \in F}] :
                              \A f \in F : r[f] \in FieldValues(f)} :
                          F \in SUBSET ((KeyFields \ {"title"}) \cup {"section"})}
    IN {t @@ r : t \in titles, r \in strings}

InitRefKey ==
    /\ Constructed(AgencyDoc(<<>>, <<>>, <<>>, <<>>))
    /\ pc = "call"
    /\ args \in [ref1 : ReferenceDicts, ref2 : ReferenceDicts]
    /\ returned = <<>>

\* The keys of the two references.
CallCreateRefKey ==
    Return([key1 |-> _create_ref_key(args.ref1), key2 |-> _create_ref_key(args.ref2)])

NextRefKey == CallCreateRefKey

SpecRefKey == InitRefKey /\ [][NextRefKey]_vars

\* The two references both lack the field or both have it with one value.
AgreeOn(r1, r2, field) ==
    /\ field \in DOMAIN r1 <=> field \in DOMAIN r2
    /\ field \in DOMAIN r1 => r1[field] = r2[field]

\* C12: the key is the tuple (title, subtitle, chapter, subchapter, part)
\* with the empty value at each field the reference lacks, and two
\* references have equal keys if and only if they agree on these five
\* fields, whatever is below the part.
C12_KeyIsFiveFields ==
    pc = "returned" =>
      /\ Len(returned[1].key1) = 5
      /\ \A i \in 1..5 :
            LET field == <<"title", "subtitle", "chapter", "subchapter", "part">>[i]
            IN IF field \in DOMAIN args.ref1
               THEN returned[1].key1[i] = args.ref1[field]
               ELSE returned[1].key1[i] = (IF i = 1 THEN 0 ELSE <<>>)
      /\ (returned[1].key1 = returned[1].key2)
           <=> \A field \in KeyFields : AgreeOn(args.ref1, args.ref2, field)

\* Two references that differ in the section only, and lack a field of the
\* key, with equal keys.
C12_Witness ==
    /\ pc = "returned"
    /\ "section" \in DOMAIN args.ref1
    /\ "section" \notin DOMAIN args.ref2
    /\ "part" \in DOMAIN args.ref1
    /\ "chapter" \notin DOMAIN args.ref1
    /\ returned[1].key1 = returned[1].key2

(***************************************************************************)
(* _extract_text_for_reference on its own                                  *)
(***************************************************************************)
\* The elements of a document below its DIV1.
MaxElements == 2

\* The N attributes of the elements; <<>> is an element without N.
NValues == {<<"5">>, <<"1", "5">>, <<"I">>, <<>>}

\* The elements a document may have below its DIV1: a chapter or a part,
\* under any element before it.
ElementChoices ==
    {El(tag, n, parent, <<"form">>) :
        tag \in {3, 5}, n \in NValues, parent \in 1..MaxElements}

\* The documents of title 1: a DIV1 and k elements, each nested in the DIV1
\* or in an element before it.
DocumentsOfSize(k) ==
    {<<El(1, <<"1">>, 0, <<"the">>)>> \o tail :
        tail \in {d \in [1..k -> ElementChoices] : \A i \in 1..k : d[i].parent <= i}}

Documents == UNION {DocumentsOfSize(k) : k \in 0..MaxElements}

\* The references: title 1, and a chapter and a part or neither.
ExtractReferences ==
    {("title" :> 1) @@ c @@ p :
        c \in {<<>>} \cup {("chapter" :> v) : v \in {<<"i">>, <<"X">>}},
        p \in {<<>>} \cup {("part" :> v) : v \in {<<"5">>, <<"9">>}}}

\* A title with two chapters whose N contains "I", each with a part "5".
XmlTwoChapters ==
    << El(1, <<"1">>, 0, <<"the">>),
       El(3, <<"I">>, 1, <<"rule">>),
       El(5, <<"5">>, 2, <<"form">>),
       El(3, <<"I", "I">>, 1, <<"rule">>),
       El(5, <<"5">>, 4, <<"report">>) >>

\* The document with the call on its element d raising.
Broken(doc, d, call) == [doc EXCEPT ![d].raises = {call}]

\* The empty data, and the title with at most one call on an element that
\* raises.
FaultyDocuments ==
    {<<>>, XmlTwoChapters}
      \cup {Broken(XmlTwoChapters, d, call) :
               d \in 1..Len(XmlTwoChapters), call \in {"find_all", "get_text"}}

Environments ==
    [parser : {"lxml-xml", "html.parser", "none"}, div1 : {"ok", "raises"}]

\* A chapter inside a chapter, both with an N that contains "I", and a part
\* "5" in the inner one.
XmlNestedChapters ==
    << El(1, <<"1">>, 0, <<"the">>),
       El(3, <<"I">>, 1, <<"rule">>),
       El(3, <<"I", "I">>, 2, <<"report">>),
       El(5, <<"5">>, 3, <<"form">>) >>

InitExtract ==
    /\ Constructed(AgencyDoc(<<>>, <<>>, <<>>, <<>>))
    /\ pc = "call"
    /\ args \in [doc : Documents \cup {XmlNestedChapters}, ref : ExtractReferences,
                 env : {NoFaults}]
               \cup [doc : FaultyDocuments, ref : ExtractReferences, env : Environments]
    /\ returned = <<>>

CallExtract ==
    Return(_extract_text_for_reference(1, args.doc, args.ref, args.env))

NextExtract == CallExtract

SpecExtract == InitExtract /\ [][NextExtract]_vars

\* The extraction ran with its parser, and no call on an element raised.
Faultless ==
    /\ args.doc # <<>>
    /\ args.env = NoFaults
    /\ \A d \in 1..Len(args.doc) : args.doc[d].raises = {}

\* The field of the reference that names the level of the description.
FieldOfLevel(name) ==
    (CHOOSE l \in Range(Levels) : l.name = name).key

TagOfField(field) ==
    (CHOOSE l \in Range(Levels) : l.key = field).tag

\* No element of the field's level, anywhere in the document, has an N
\* that contains the reference's value.
MatchesNothing(doc, ref, field) ==
    \A d \in 1..Len(doc) :
        doc[d].tag = TagOfField(field) => ~NMatches(ref[field], doc[d].n)

\* The reference without the field.
Without(ref, field) == [f \in DOMAIN ref \ {field} |-> ref[f]]

\* The parts of the document with an N containing the value, in document
\* order.
PartsMatching(doc, value) ==
    SelectSeq([i \in 1..Len(doc) |-> i],
              LAMBDA d : doc[d].tag = 5 /\ NMatches(value, doc[d].n))

\* C13: a level the reference does not specify is not matched; a level it
\* specifies that matches nothing changes nothing, the result is that of
\* the reference without the level; so a part is matched from the title
\* when the chapter is absent or matches nothing, as for DIV5 N="5" directly
\* under DIV1.
C13_UnmatchedLevelsAreSkipped ==
    (pc = "returned" /\ Faultless) =>
      LET doc == args.doc
          ref == args.ref
          res == returned[1]
      IN /\ \A i \in 1..Len(res.desc.levels) :
               FieldOfLevel(res.desc.levels[i].level) \in DOMAIN ref
         /\ \A field \in DOMAIN ref \ {"title"} :
               MatchesNothing(doc, ref, field) =>
                  res = _extract_text_for_reference(1, doc, Without(ref, field), NoFaults)
         /\ ( /\ "part" \in DOMAIN ref
              /\ PartsMatching(doc, ref.part) # <<>>
              /\ "chapter" \in DOMAIN ref => MatchesNothing(doc, ref, "chapter") )
            => /\ res.desc.levels = <<[level |-> "Part", value |-> ref.part]>>
               /\ res.text = FlattenSeq([i \in 1..Len(PartsMatching(doc, ref.part)) |->
                                GetText(1, doc, PartsMatching(doc, ref.part)[i])])

\* DIV5 N="5" directly under DIV1, a reference with a chapter that matches
\* nothing and the part "5": matched at the part.
C13_Witness ==
    /\ pc = "returned"
    /\ Faultless
    /\ Len(args.doc) = 2
    /\ args.doc[2].tag = 5
    /\ args.doc[2].n = <<"5">>
    /\ "part" \in DOMAIN args.ref
    /\ "chapter" \in DOMAIN args.ref
    /\ args.ref.part = <<"5">>
    /\ returned[1].desc.levels = <<[level |-> "Part", value |-> <<"5">>]>>
    /\ returned[1].text # <<>>

\* The two strings are the same up to the case of their letters.
SameIgnoringCase(a, b) ==
    /\ Len(a) = Len(b)
    /\ \A i \in 1..Len(a) : LowerChar(a[i]) = LowerChar(b[i])

\* The element has an N of which the value is a substring, up to case.
NContains(el, value) ==
    \E i \in 1..Len(el.n) : \E j \in i..Len(el.n) :
        SameIgnoringCase(SubSeq(el.n, i, j), value)

\* The nodes of the field's level at any depth below the candidate whose N
\* contains the reference's value, in document order.
MatchesBelow(doc, ref, field, candidate) ==
    SelectSeq([i \in 1..Len(doc) |-> i],
              LAMBDA d : /\ doc[d].tag = TagOfField(field)
                         /\ IsDescendant(doc, d, candidate)
                         /\ NContains(doc[d], ref[field]))

\* The candidates after the level of the field: the matches below each
\* current candidate if the reference has the field and there is a match,
\* else the current candidates.
CandidatesAfter(doc, ref, field, current) ==
    IF field \notin DOMAIN ref THEN current
    ELSE LET found == FlattenSeq([i \in 1..Len(current) |->
                          MatchesBelow(doc, ref, field, current[i])])
         IN IF found = <<>> THEN current ELSE found

\* C14: at each level the reference specifies and that has a match, the
\* candidates become exactly the nodes of the level's tag, at any depth
\* below a current candidate, whose N contains the value as a substring up
\* to case; the text is the concatenation of the text of the final
\* candidates.
C14_CandidatesAtAnyDepth ==
    (pc = "returned" /\ Faultless) =>
      LET doc      == args.doc
          ref      == args.ref
          titles   == SelectSeq([i \in 1..Len(doc) |-> i], LAMBDA d : doc[d].tag = 1)
          chapters == CandidatesAfter(doc, ref, "chapter", titles)
          final    == CandidatesAfter(doc, ref, "part", chapters)
      IN /\ "part" \in DOMAIN ref /\ final # chapters =>
              Range(final) = {d \in 1..Len(doc) :
                                /\ doc[d].tag = 5
                                /\ NContains(doc[d], ref.part)
                                /\ \E c \in Range(chapters) : IsDescendant(doc, d, c)}
         /\ returned[1].text
              = FlattenSeq([i \in 1..Len(final) |-> GetText(1, doc, final[i])])
         /\ Len(returned[1].desc.levels)
              = Cardinality({f \in {"chapter", "part"} :
                    /\ f \in DOMAIN ref
                    /\ CandidatesAfter(doc, ref, f,
                          IF f = "chapter" THEN titles ELSE chapters)
                         # (IF f = "chapter" THEN titles ELSE chapters)})

\* A part two levels below the DIV1, with the N "15", found for the
\* reference to part "5" that names no chapter.
C14_Witness ==
    /\ pc = "returned"
    /\ Faultless
    /\ Len(args.doc) = 3
    /\ args.doc[2].tag = 3
    /\ args.doc[3].tag = 5
    /\ args.doc[3].parent = 2
    /\ args.doc[3].n = <<"1", "5">>
    /\ DOMAIN args.ref = {"title", "part"}
    /\ args.ref.part = <<"5">>
    /\ returned[1].text = GetText(1, args.doc, 3)

\* The matches of the level below the current candidates, a candidate
\* whose search raises left out.
CandidatesSkipping(doc, ref, field, current) ==
    IF field \notin DOMAIN ref THEN current
    ELSE LET found == FlattenSeq([i \in 1..Len(current) |->
                          IF "find_all" \in doc[current[i]].raises THEN <<>>
                          ELSE MatchesBelow(doc, ref, field, current[i])])
         IN IF found = <<>> THEN current ELSE found

\* C15: the extractor returns a (text, description) in every case: empty
\* data gives ("", "No XML data"), no parser gives ("", "Error parsing
\* XML"), another failure gives empty text and a diagnostic, and an error
\* on one node leaves that node out while the other nodes are extracted.
C15_FailuresAreContained ==
    pc = "returned" =>
      LET doc == args.doc
          ref == args.ref
          env == args.env
          res == returned[1]
      IN /\ DOMAIN res = {"text", "desc"}
         /\ doc = <<>> => res = [text |-> <<>>, desc |-> [error |-> "No XML data"]]
         /\ (doc # <<>> /\ env.parser = "none")
              => res = [text |-> <<>>, desc |-> [error |-> "Error parsing XML"]]
         /\ (doc # <<>> /\ env.parser # "none" /\ env.div1 = "raises")
              => res.text = <<>> /\ DOMAIN res.desc = {"error"}
         /\ (doc # <<>> /\ env = NoFaults)
              => LET titles   == SelectSeq([i \in 1..Len(doc) |-> i],
                                           LAMBDA d : doc[d].tag = 1)
                     chapters == CandidatesSkipping(doc, ref, "chapter", titles)
                     final    == CandidatesSkipping(doc, ref, "part", chapters)
                     sound    == SelectSeq(final, LAMBDA d : "get_text" \notin doc[d].raises)
                 IN res.text = FlattenSeq([i \in 1..Len(sound) |-> GetText(1, doc, sound[i])])

\* Two parts are matched, get_text raises on the first, and the text is
\* that of the second.
C15_Witness ==
    /\ pc = "returned"
    /\ args.env = NoFaults
    /\ args.doc = Broken(XmlTwoChapters, 3, "get_text")
    /\ DOMAIN args.ref = {"title", "chapter", "part"}
    /\ args.ref.chapter = <<"i">>
    /\ args.ref.part = <<"5">>
    /\ returned[1].text = GetText(1, args.doc, 5)
    /\ returned[1].text # <<>>

(***************************************************************************)
(* CorrectionsAnalyzer._matches_reference on its own                       *)
(***************************************************************************)
\* correction_hierarchy.get(field): the value, or a falsy one.
HierarchyGet(correction_hierarchy, field) ==
    IF field \in DOMAIN correction_hierarchy THEN correction_hierarchy[field] ELSE NoStr

\* A correction that does not name a level of the key matches no key that
\* names it.
MatchesExactly(ref_key, correction_hierarchy, title_num) ==
    /\ HierarchyGet(correction_hierarchy, "title") = Str(title_num)
    /\ \A i \in 2..5 :
          LET field == <<"title", "subtitle", "chapter", "subchapter", "part">>[i]
          IN (i <= Len(ref_key) /\ ref_key[i] # NoStr)
               => HierarchyGet(correction_hierarchy, field) = ref_key[i]

_matches_reference(ref_key, correction_hierarchy, title_num) ==
    LET corr_title == HierarchyGet(correction_hierarchy, "title")
        \* `if len(ref_key) > i and ref_key[i]: ... if corr and corr != ref`
        differs(i, field) ==
            /\ Len(ref_key) >= i
            /\ ref_key[i] # NoStr
            /\ HierarchyGet(correction_hierarchy, field) # NoStr
            /\ HierarchyGet(correction_hierarchy, field) # ref_key[i]
    IN IF corr_title # Str(title_num) THEN FALSE
       ELSE IF Len(ref_key) = 1 THEN TRUE
       ELSE IF differs(2, "subtitle") THEN FALSE
       ELSE IF differs(3, "chapter") THEN FALSE
       ELSE IF differs(4, "subchapter") THEN FALSE
       ELSE IF differs(5, "part") THEN FALSE
       ELSE TRUE

\* The reference keys, as _create_ref_key gives them.
MatchKeys ==
    {<<t, st, ch, sc, pt>> :
        t \in {1, 12}, st \in {NoStr, <<"A">>}, ch \in {NoStr, <<"I", "I">>},
        sc \in {NoStr, <<"B">>}, pt \in {NoStr, <<"5">>}}

\* The hierarchies of the corrections: dicts with some of the levels.
MatchHierarchies ==
    {t @@ st @@ ch @@ sc @@ pt :
        t  \in {<<>>} \cup {("title" :> v) : v \in {<<"1">>, <<"2">>, <<"1", "2">>}},
        st \in {<<>>} \cup {("subtitle" :> v) : v \in {<<"A">>}},
        ch \in {<<>>} \cup {("chapter" :> v) : v \in {<<"I">>, <<"I", "I">>}},
        sc \in {<<>>} \cup {("subchapter" :> v) : v \in {<<"B">>}},
        pt \in {<<>>} \cup {("part" :> v) : v \in {<<"5">>, <<"9">>}}}

InitMatches ==
    /\ Constructed(AgencyDoc(<<>>, <<>>, <<>>, <<>>))
    /\ pc = "call"
    /\ args \in [ref_key : MatchKeys, correction_hierarchy : MatchHierarchies]
    /\ returned = <<>>

\* The call analyze_corrections_by_agency makes: title_num = ref_key[0].
CallMatchesReference ==
    Return(_matches_reference(args.ref_key, args.correction_hierarchy, args.ref_key[1]))

NextMatches == CallMatchesReference

SpecMatches == InitMatches /\ [][NextMatches]_vars

\* The title numbers of the keys, written as strings.
TitleAsString == (1 :> <<"1">>) @@ (12 :> <<"1", "2">>)

\* C16: _matches_reference is true exactly when the correction's title is
\* the reference's title as a string and, at each of subtitle, chapter,
\* subchapter and part that the key names, the correction names no value
\* or the same value.  {title: "1"} matches (1, "", "II", "", "5");
\* {title: "1", part: "9"} does not match (1, "", "", "", "5").
C16_MatchesByContainment ==
    pc = "returned" =>
      LET key == args.ref_key
          h   == args.correction_hierarchy
          fields == <<"title", "subtitle", "chapter", "subchapter", "part">>
      IN /\ returned[1] <=>
              /\ "title" \in DOMAIN h
              /\ h.title = TitleAsString[key[1]]
              /\ \A i \in 2..5 :
                    key[i] # <<>> =>
                       \/ fields[i] \notin DOMAIN h
                       \/ h[fields[i]] = key[i]
         /\ (h = ("title" :> <<"1">>) /\ key = <<1, <<>>, <<"I", "I">>, <<>>, <<"5">>>>)
              => returned[1]
         /\ (h = ("title" :> <<"1">>) @@ ("part" :> <<"9">>)
               /\ key = <<1, <<>>, <<>>, <<>>, <<"5">>>>)
              => ~returned[1]

\* The correction of the whole title 1 matched against a key with a
\* chapter and a part.
C16_Witness ==
    /\ pc = "returned"
    /\ args.correction_hierarchy = ("title" :> <<"1">>)
    /\ args.ref_key = <<1, <<>>, <<"I", "I">>, <<>>, <<"5">>>>
    /\ returned[1]

(***************************************************************************)
(* backend FootprintAnalyzer._footprint_analysis_function on its own, the  *)
(* text a string of characters, and the store of its result               *)
(***************************************************************************)
\* The longest text.
MaxChars == 4

\* \w of the regular expressions.
IsWordChar(c) == c \in {"a", "A", "b", "c", "e", "f", "i", "l", "m", "n", "o", "p", "r", "_"}

\* Whether the character at position p of the text is a word character;
\* outside the text there is none.
WordAt(text, p) == p >= 1 /\ p <= Len(text) /\ IsWordChar(text[p])

\* \b before position p.
Boundary(text, p) == WordAt(text, p - 1) # WordAt(text, p)

\* re.compile(r"\b(" + "|".join(keywords) + r")\b", re.IGNORECASE): the
\* alternatives in the order the set is iterated in.
_compile_regex_pattern(keywords, order) == [i \in 1..Len(order) |-> order[i]]

\* A keyword found anywhere in the text, inside a word too.
MatchAnywhere(text, k, i) ==
    /\ i + Len(k) - 1 <= Len(text)
    /\ Lower(SubSeq(text, i, i + Len(k) - 1)) = Lower(k)

\* \b k \b matches at position i.
MatchAt(text, k, i) ==
    /\ i + Len(k) - 1 <= Len(text)
    /\ Lower(SubSeq(text, i, i + Len(k) - 1)) = Lower(k)
    /\ Boundary(text, i)
    /\ Boundary(text, i + Len(k))

\* pattern.findall(text) from position i on: the leftmost match, by the
\* first alternative that matches there, then on after it.
RECURSIVE FindallFrom(_, _, _)
FindallFrom(text, pattern, i) ==
    IF i > Len(text) THEN <<>>
    ELSE LET alts == {j \in 1..Len(pattern) : MatchAt(text, pattern[j], i)}
         IN IF alts = {} THEN FindallFrom(text, pattern, i + 1)
            ELSE LET j == CHOOSE a \in alts : \A b \in alts : a <= b
                 IN <<SubSeq(text, i, i + Len(pattern[j]) - 1)>>
                      \o FindallFrom(text, pattern, i + Len(pattern[j]))

\* Counter(pattern.findall(text.lower()))
CountKeywordMatches(text, pattern) ==
    IF text = <<>> THEN EmptyMap
    ELSE LET matches == FindallFrom(Lower(text), pattern, 1)
         IN [w \in Range(matches) |->
               Cardinality({i \in 1..Len(matches) : matches[i] = w})]

FootprintAnalysisFunction(agency_slug, ref_key, ref_text, ref_desc, pattern) ==
    IF ref_text = <<>> THEN None
    ELSE LET match_counter == CountKeywordMatches(ref_text, pattern)
             total_matches == SumValues(match_counter)
         IN IF total_matches = 0 THEN None
            ELSE << [total_matches   |-> total_matches,
                     keyword_matches |-> match_counter,
                     description     |-> ref_desc] >>

Compliance == <<"c", "o", "m", "p", "l", "i", "a", "n", "c", "e">>

Form == <<"f", "o", "r", "m">>

ComplianceComplianceForm == Compliance \o <<" ">> \o Compliance \o <<" ">> \o Form

RECURSIVE StringsUpTo(_, _)
StringsUpTo(alphabet, n) ==
    IF n = 0 THEN {<<>>}
    ELSE LET shorter == StringsUpTo(alphabet, n - 1)
         IN shorter \cup {Append(x, c) : x \in shorter, c \in alphabet}

\* The texts: every string of up to MaxChars characters, and the text of
\* the example.
FootprintTexts ==
    StringsUpTo({"a", "A", "b", " ", "_"}, MaxChars) \cup {ComplianceComplianceForm}

\* The keyword sets, each in every order its iteration can have.
KeywordOrders ==
    LET sets == (SUBSET {<<"a">>, <<"b">>, <<"a", "b">>} \ {{}}) \cup {{Compliance, Form}}
    IN UNION {{o \in [1..Cardinality(K) -> K] : Range(o) = K} : K \in sets}

InitFootprintFunction ==
    /\ Constructed(AgencyDoc(<<>>, <<>>, <<>>, <<>>))
    /\ pc = "call"
    /\ \E order \in KeywordOrders, text \in FootprintTexts :
          args = [keywords |-> Range(order), order |-> order, ref_text |-> text,
                  agency_slug |-> "p", ref_key |-> _create_ref_key(RefChapterI),
                  ref_desc |-> "Title 1"]
    /\ returned = <<>>

\* analysis_function(agency_slug, ref_key, ref_text, ref_desc) of
\* analyze_keyword_footprint.
CallFootprintFunction ==
    Return(FootprintAnalysisFunction(args.agency_slug, args.ref_key, args.ref_text,
                                     args.ref_desc,
                                     _compile_regex_pattern(args.keywords, args.order)))

\* if result: agency_results[agency_slug][ref_key] = result
StoreFootprintResult ==
    /\ pc = "returned"
    /\ pc' = "stored"
    /\ agency_results' = IF returned[1] # None
                         THEN StoreResult(agency_results, args.agency_slug, args.ref_key,
                                          returned[1][1])
                         ELSE agency_results
    /\ UNCHANGED <<load_calls, args, returned, agencies_data, analyzer, xml_data_cache,
                   extracted_text_cache, title_to_agencies, titles_to_process, ti, ei,
                   processed_title_agency_pairs, processed_refs_for_title,
                   extract_calls, analysis_calls, output>>

NextFootprintFunction == CallFootprintFunction \/ StoreFootprintResult

SpecFootprintFunction == InitFootprintFunction /\ [][NextFootprintFunction]_vars

\* The whole-word occurrences of keyword k in the text, whatever the case:
\* the places where k stands with no word character before or after it.
WholeWordOccurrences(text, k) ==
    Cardinality({i \in 1..Len(text) :
        /\ i + Len(k) - 1 <= Len(text)
        /\ \A j \in 1..Len(k) : LowerChar(text[i + j - 1]) = k[j]
        /\ (i = 1 \/ ~IsWordChar(text[i - 1]))
        /\ (i + Len(k) - 1 = Len(text) \/ ~IsWordChar(text[i + Len(k)]))})

C17_WitnessNull ==
    /\ pc = "stored"
    /\ args.ref_text = <<"a", "b", "_", "a">>
    /\ <<"a">> \in args.keywords
    /\ returned[1] = None

(***************************************************************************)
(* WordCountAnalyzer._word_count_analysis_function on its own, the text a  *)
(* string of characters, with NLTK working or failing                      *)
(***************************************************************************)
Letters == {"a", "b", "B"}

DigitChars == {"5"}

\* The stopwords that the characters of the texts can spell.
StopwordTokens == {<<"a">>}

\* str.isalpha()
isalpha(token) == token # <<>> /\ \A i \in 1..Len(token) : token[i] \in Letters

\* str.lower() of a text over these characters.
LowerText(text) == [i \in 1..Len(text) |-> IF text[i] = "B" THEN "b" ELSE text[i]]

\* str.split(): the maximal runs of characters other than spaces.
RECURSIVE SplitFrom(_, _, _)
SplitFrom(text, i, word) ==
    IF i > Len(text) THEN (IF word = <<>> THEN <<>> ELSE <<word>>)
    ELSE IF text[i] = " "
         THEN (IF word = <<>> THEN <<>> ELSE <<word>>) \o SplitFrom(text, i + 1, <<>>)
         ELSE SplitFrom(text, i + 1, Append(word, text[i]))

split(text) == SplitFrom(text, 1, <<>>)

\* The punctuation rule of nltk.word_tokenize for the comma: r"([:,])([^\d])"
\* becomes " \1 \2" from left to right, the second character consumed.
RECURSIVE SeparateCommas(_, _)
SeparateCommas(text, i) ==
    IF i > Len(text) THEN <<>>
    ELSE IF text[i] = "," /\ i < Len(text) /\ text[i + 1] \notin DigitChars
         THEN <<" ", ",", " ", text[i + 1]>> \o SeparateCommas(text, i + 2)
         ELSE <<text[i]>> \o SeparateCommas(text, i + 1)

\* r"([:,])$" becomes " \1 ".
SeparateLastComma(text) ==
    IF text # <<>> /\ text[Len(text)] = ","
    THEN SubSeq(text, 1, Len(text) - 1) \o <<" ", ",", " ">>
    ELSE text

\* nltk.word_tokenize(text) of a text of letters, digits, commas and spaces.
word_tokenize(text) == split(SeparateLastComma(SeparateCommas(text, 1)))

\* re.sub(r"[^\w\s]", " ", text)
SubPunctuation(text) == [i \in 1..Len(text) |-> IF text[i] = "," THEN " " ELSE text[i]]

\* _tokenize_text(text); nltk_fails: nltk.word_tokenize raises and the
\* except branch tokenizes.
TokenizeText(text, nltk_fails) ==
    IF ~nltk_fails
    THEN SelectSeq(word_tokenize(LowerText(text)),
                   LAMBDA token : isalpha(token) /\ token \notin StopwordTokens)
    ELSE SelectSeq(split(SubPunctuation(LowerText(text))),
                   LAMBDA word : word # <<>> /\ word \notin StopwordTokens)

WordCountAnalysisFunction(agency_slug, ref_text, ref_desc, nltk_fails) ==
    IF ref_text = <<>> THEN None
    ELSE << [count |-> Len(TokenizeText(ref_text, nltk_fails)), description |-> ref_desc] >>

WordCountTexts == StringsUpTo({"a", "b", "B", "5", " ", ","}, MaxChars)

InitWordCountFunction ==
    /\ Constructed(AgencyDoc(<<>>, <<>>, <<>>, <<>>))
    /\ pc = "call"
    /\ \E text \in WordCountTexts, fails \in BOOLEAN :
          args = [ref_text |-> text, nltk_fails |-> fails, agency_slug |-> "p",
                  ref_desc |-> "Title 1"]
    /\ returned = <<>>

CallWordCountFunction ==
    Return(WordCountAnalysisFunction(args.agency_slug, args.ref_text, args.ref_desc,
                                     args.nltk_fails))

NextWordCountFunction == CallWordCountFunction

SpecWordCountFunction == InitWordCountFunction /\ [][NextWordCountFunction]_vars

\* The tokens the tokenizer in use makes of the lowercased text.
TokensOfPath(text, nltk_fails) ==
    IF nltk_fails THEN split(SubPunctuation(LowerText(text)))
    ELSE word_tokenize(LowerText(text))

\* Those of the tokens that are alphabetic and no stopwords.
AlphabeticWords(tokens) ==
    SelectSeq(tokens,
              LAMBDA token : (\A i \in 1..Len(token) : token[i] \in {"a", "b"})
                                /\ token # <<"a">>)

\* C18: for a non-empty text the word-count analysis returns {count,
\* description} with count the number of the tokens of the lowercased text
\* that are alphabetic and no stopwords, with the NLTK tokenizer and with
\* the fallback tokenizer alike; for the empty text it returns null.
C18_CountsAlphabeticWords ==
    pc = "returned" =>
       IF args.ref_text = <<>> THEN returned[1] = None
       ELSE /\ returned[1] # None
            /\ returned[1][1].description = args.ref_desc
            /\ returned[1][1].count
                 = Len(AlphabeticWords(TokensOfPath(args.ref_text, args.nltk_fails)))

(***************************************************************************)
(* A title without XML                                                     *)
(***************************************************************************)
\* The titles some agency cites that have no file.
AbsentTitles == TitlesOf(_get_agency_cfr_references(agencies_data)) \ DOMAIN XmlFiles

\* The agency document without the references to the titles T.
RECURSIVE WithoutTitles(_, _)
WithoutTitles(agencies, T) ==
    [i \in 1..Len(agencies) |->
        [slug           |-> agencies[i].slug,
         cfr_references |-> SelectSeq(agencies[i].cfr_references,
                                      LAMBDA r : RefGet(r, "title") \notin T),
         children       |-> WithoutTitles(agencies[i].children, T)]]

\* What a run over a document leaves, computed entry by entry over the
\* titles in ascending order.
RECURSIVE RunEntries(_, _, _, _, _)
RunEntries(an, t, entries, i, st) ==
    IF i > Len(entries) \/ st.raised THEN st
    ELSE LET step == EntryStep(an, t, XmlFiles[t], entries[i], st.pairs,
                               st.refs_for_title, st.cache, st.results)
         IN RunEntries(an, t, entries, i + 1,
                       [pairs          |-> step.pairs,
                        refs_for_title |-> step.refs_for_title,
                        cache          |-> step.cache,
                        results        |-> step.inv.results,
                        extracted      |-> st.extracted \o step.extracted,
                        calls          |-> st.calls \o step.inv.calls,
                        raised         |-> step.inv.raised])

RECURSIVE RunTitles(_, _, _, _, _)
RunTitles(an, mapping, titles, n, st) ==
    IF n > Len(titles) \/ st.raised THEN st
    ELSE IF titles[n] \notin DOMAIN XmlFiles THEN RunTitles(an, mapping, titles, n + 1, st)
    ELSE RunTitles(an, mapping, titles, n + 1,
                   RunEntries(an, titles[n], mapping[titles[n]], 1,
                              [st EXCEPT !.refs_for_title = {}]))

RunOver(an, doc) ==
    LET agency_refs == _get_agency_cfr_references(doc)
    IN RunTitles(an, InverseMapping(agency_refs), SortedSeq(TitlesOf(agency_refs)), 1,
                 [pairs |-> {}, refs_for_title |-> {}, cache |-> EmptyMap,
                  results |-> <<>>, extracted |-> <<>>, calls |-> <<>>,
                  raised |-> FALSE])

\* The run as it would be had no agency declared a reference to a title
\* without XML.
RunWithoutAbsentTitles ==
    RunOver(analyzer, [agencies |-> WithoutTitles(agencies_data.agencies, AbsentTitles)])

\* C19: a title whose XML is absent is skipped without an error: no
\* reference of the title is extracted or analysed, no result is stored
\* under a key of the title, and the run extracts, analyses and stores for
\* the other titles what it would have had the absent title's references
\* not been declared.
C19_AbsentTitleIsSkipped ==
    /\ \A i \in 1..Len(extract_calls) : extract_calls[i].title \in DOMAIN XmlFiles
    /\ \A i \in 1..Len(analysis_calls) : analysis_calls[i].key[1] \in DOMAIN XmlFiles
    /\ \A i \in 1..Len(agency_results) :
          \A key \in DOMAIN agency_results[i].v : key[1] \in DOMAIN XmlFiles
    /\ pc = "raised" => CallRaises(analyzer)
    /\ pc \in {"processed", "raised"} =>
          LET run == RunWithoutAbsentTitles
          IN /\ agency_results = run.results
             /\ extract_calls = run.extracted
             /\ analysis_calls = run.calls
             /\ extracted_text_cache = run.cache

\* A run has ended that skipped a title without XML between two titles
\* with XML, stored a result for the title before it and extracted a
\* reference of the title after it.
C19_Witness ==
    /\ pc = "processed"
    /\ \E n \in 2..(Len(titles_to_process) - 1) :
          /\ titles_to_process[n] \notin DOMAIN XmlFiles
          /\ \E i \in 1..Len(agency_results) :
                \E key \in DOMAIN agency_results[i].v : key[1] = titles_to_process[n - 1]
          /\ \E i \in 1..Len(extract_calls) :
                extract_calls[i].title = titles_to_process[n + 1]

(***************************************************************************)
(* The order of the titles                                                 *)
(***************************************************************************)
\* The (agency, key) pairs of the entries of title t.
PairsOfTitle(t) ==
    {<<e.agency, _create_ref_key(e.ref)>> : e \in Range(title_to_agencies[t])}

\* The titles whose entries have all been gone through.
FinishedTitles ==
    {load_calls[n] : n \in {m \in 1..Len(load_calls) :
                              m < Len(load_calls) \/ pc \in {"title", "processed", "done"}}}

NonDecreasing(s) == \A i, j \in 1..Len(s) : i < j => s[i] <= s[j]

\* C20: the run takes the distinct title numbers in ascending order, loads
\* the XML of each exactly once, and goes through every (agency,
\* reference) entry of a title before it starts the next title.
C20_OneTitleAtATime ==
    pc # "idle" =>
      /\ Range(titles_to_process) = DOMAIN title_to_agencies
      /\ \A i, j \in 1..Len(titles_to_process) :
            i < j => titles_to_process[i] < titles_to_process[j]
      /\ Len(load_calls) <= Len(titles_to_process)
      /\ load_calls = SubSeq(titles_to_process, 1, Len(load_calls))
      /\ pc \in {"processed", "done"} => load_calls = titles_to_process
      /\ pc = "entry" => (load_calls # <<>> /\ load_calls[Len(load_calls)] = CurrentTitle)
      /\ pc # "raised" =>
            \A t \in FinishedTitles \cap DOMAIN XmlFiles :
               PairsOfTitle(t) \subseteq processed_title_agency_pairs
      /\ processed_title_agency_pairs \subseteq UNION {PairsOfTitle(t) : t \in Range(load_calls)}
      /\ NonDecreasing([i \in 1..Len(extract_calls) |-> extract_calls[i].title])
      /\ NonDecreasing([i \in 1..Len(analysis_calls) |-> analysis_calls[i].key[1]])

\* A run over three titles has ended, with references of two of them
\* extracted.
C20_Witness ==
    /\ pc = "processed"
    /\ Len(load_calls) = 3
    /\ \E i, j \in 1..Len(extract_calls) : extract_calls[i].title < extract_calls[j].title

(***************************************************************************)
(* The two caches                                                          *)
(***************************************************************************)
\* A step takes the XML of a title out of xml_data_cache.
EvictsXml == DOMAIN xml_data_cache' # DOMAIN xml_data_cache
               /\ DOMAIN xml_data_cache' \subseteq DOMAIN xml_data_cache

\* C21: an entry of extracted_text_cache is never removed or overwritten
\* during the run, also after the XML of its title has left
\* xml_data_cache; the step that evicts XML changes no other cache and no
\* result.
C21_TextCacheIsKept ==
    [][ /\ \A key \in DOMAIN extracted_text_cache :
              /\ key \in DOMAIN extracted_text_cache'
              /\ extracted_text_cache'[key] = extracted_text_cache[key]
        /\ EvictsXml =>
              UNCHANGED <<extracted_text_cache, agency_results,
                          processed_title_agency_pairs, processed_refs_for_title,
                          title_to_agencies, titles_to_process, extract_calls,
                          analysis_calls, output>> ]_vars

\* The text of a reference is cached, the XML of its title is evicted,
\* and the run has gone on to a later title.
C21_Witness ==
    /\ pc = "entry"
    /\ \E key \in DOMAIN extracted_text_cache :
          /\ key[1] \in DOMAIN XmlFiles
          /\ key[1] \notin DOMAIN xml_data_cache
          /\ key[1] < CurrentTitle
          /\ extracted_text_cache[key].text # <<>>

(***************************************************************************)
(* _save_analysis_results and _convert_for_json on their own.  A Python    *)
(* value is a record with its kind: a string, a number, a tuple, a list,   *)
(* a set (its items in some order) or a dict (its items as [k, v]).        *)
(***************************************************************************)
PyStr(x) == [kind |-> "str", s |-> x]

PyNum(n) == [kind |-> "num", n |-> n]

PyTuple(items) == [kind |-> "tuple", items |-> items]

PyList(items) == [kind |-> "list", items |-> items]

PySet(items) == [kind |-> "set", items |-> items]

PyDict(items) == [kind |-> "dict", items |-> items]

\* str(k) of a tuple: the text of its repr.
StrOfTuple(k) == [kind |-> "str", repr |-> k.items]

RECURSIVE _convert_for_json(_)
_convert_for_json(obj) ==
    IF obj.kind = "dict"
    THEN PyDict([i \in 1..Len(obj.items) |->
                   [k |-> IF obj.items[i].k.kind = "tuple"
                          THEN StrOfTuple(obj.items[i].k) ELSE obj.items[i].k,
                    v |-> _convert_for_json(obj.items[i].v)]])
    ELSE IF obj.kind \in {"list", "set", "tuple"}
    THEN PyList([i \in 1..Len(obj.items) |-> _convert_for_json(obj.items[i])])
    ELSE obj

\* Whether json.dump can write the value: a dict key is a string or a
\* number, and no value is a set.
RECURSIVE Serializable(_)
Serializable(obj) ==
    IF obj.kind = "dict"
    THEN \A i \in 1..Len(obj.items) :
            obj.items[i].k.kind \in {"str", "num"} /\ Serializable(obj.items[i].v)
    ELSE IF obj.kind \in {"list", "tuple"}
    THEN \A i \in 1..Len(obj.items) : Serializable(obj.items[i])
    ELSE obj.kind # "set"

\* What json.dump writes: a tuple is written as a list.
RECURSIVE JsonOf(_)
JsonOf(obj) ==
    IF obj.kind = "dict"
    THEN PyDict([i \in 1..Len(obj.items) |->
                   [k |-> obj.items[i].k, v |-> JsonOf(obj.items[i].v)]])
    ELSE IF obj.kind \in {"list", "tuple"}
    THEN PyList([i \in 1..Len(obj.items) |-> JsonOf(obj.items[i])])
    ELSE obj

\* json.dump(results, f): the document, or a TypeError.
json_dump(results) ==
    IF Serializable(results) THEN [written |-> <<JsonOf(results)>>, raised |-> "no"]
    ELSE [written |-> <<>>, raised |-> "TypeError"]

\* _save_analysis_results of the two base classes: process_data converts
\* the results first, backend hands them to json.dump as they are.
_save_analysis_results(base, results) ==
    IF base = "process_data" THEN json_dump(_convert_for_json(results))
    ELSE json_dump(results)

\* A ReferenceKey.
KeyTuple == PyTuple(<<PyNum(1), PyStr(""), PyStr("I"), PyStr(""), PyStr("")>>)

\* The results: the per-reference data under string, number and
\* ReferenceKey keys, inside the dicts and lists of an analysis.
ResultLeaves == {PyNum(1), PyStr("form")}

ResultValues ==
    ResultLeaves
      \cup {PyTuple(<<l>>) : l \in ResultLeaves}
      \cup {PyList(<<l>>) : l \in ResultLeaves}
      \cup {PySet(<<l>>) : l \in ResultLeaves}

ResultKeys == {PyStr("count"), PyNum(2023), KeyTuple}

ReferenceData == {PyDict(<<[k |-> k, v |-> v]>>) : k \in ResultKeys, v \in ResultValues}

ResultTrees ==
    ReferenceData
      \cup {PyDict(<<[k |-> PyStr("total"), v |-> PyNum(1)],
                     [k |-> PyStr("references"), v |-> d]>>) : d \in ReferenceData}
      \cup {PyDict(<<[k |-> PyStr("agencies"),
                      v |-> PyDict(<<[k |-> PyStr("p"), v |-> PyList(<<d>>)]>>)]>>) :
               d \in ReferenceData}

InitSave ==
    /\ Constructed(AgencyDoc(<<>>, <<>>, <<>>, <<>>))
    /\ pc = "call"
    /\ args \in [base : {"backend", "process_data"}, results : ResultTrees]
    /\ returned = <<>>

CallSaveAnalysisResults == Return(_save_analysis_results(args.base, args.results))

NextSave == CallSaveAnalysisResults

SpecSave == InitSave /\ [][NextSave]_vars

\* A document of strings, numbers, lists and dicts only, the keys of the
\* dicts strings or numbers.
RECURSIVE JsonSafe(_)
JsonSafe(obj) ==
    IF obj.kind = "dict"
    THEN \A i \in 1..Len(obj.items) :
            obj.items[i].k.kind \in {"str", "num"} /\ JsonSafe(obj.items[i].v)
    ELSE IF obj.kind = "list"
    THEN \A i \in 1..Len(obj.items) : JsonSafe(obj.items[i])
    ELSE obj.kind \in {"str", "num"}

\* C22: _save_analysis_results writes every analysis result, and what it
\* writes is JSON-safe: no dict has a tuple key and no value is a set or a
\* tuple, at any depth.
C22_ResultsAreJsonSafe ==
    pc = "returned" =>
       /\ returned[1].raised = "no"
       /\ JsonSafe(returned[1].written[1])

\* The same for the base class of process_data alone.
C22_ProcessDataIsJsonSafe ==
    (pc = "returned" /\ args.base = "process_data") =>
       /\ returned[1].raised = "no"
       /\ JsonSafe(returned[1].written[1])

(***************************************************************************)
(* CorrectionsAnalyzer.analyze_corrections_over_time on its own            *)
(***************************************************************************)
\* The longest list of corrections of one reference.
MaxCorrections == 2

\* correction.get("error_corrected") of a correction without the field.
NoDate == [kind |-> "none"]

\* The value of a digit.
DigitValue(c) == (CHOOSE i \in 1..10 : Digits[i] = c) - 1

IsDigit(c) == \E i \in 1..10 : Digits[i] = c

\* corrected_date.split("-")[0]
RECURSIVE FirstField(_)
FirstField(chars) ==
    IF chars = <<>> \/ Head(chars) = "-" THEN <<>>
    ELSE <<Head(chars)>> \o FirstField(Tail(chars))

RECURSIVE IntOf(_, _)
IntOf(chars, n) ==
    IF chars = <<>> THEN n ELSE IntOf(Tail(chars), 10 * n + DigitValue(Head(chars)))

\* `if not corrected_date: continue`, then
\* `year = int(corrected_date.split("-")[0])` in its try: the year, or the
\* correction is skipped (a value that is no string has no split:
\* AttributeError; a field that is no number: ValueError).
YearOf(corrected_date) ==
    IF corrected_date.kind = "none" THEN [skipped |-> TRUE]
    ELSE IF corrected_date.kind = "num"
    THEN [skipped |-> TRUE]
    ELSE IF corrected_date.s = <<>> THEN [skipped |-> TRUE]
    ELSE LET field == FirstField(corrected_date.s)
         IN IF field # <<>> /\ \A i \in 1..Len(field) : IsDigit(field[i])
            THEN [skipped |-> FALSE, year |-> IntOf(field, 0)]
            ELSE [skipped |-> TRUE]

\* The corrections of an agency, over its references.
CorrectionsOf(ref_corrections) ==
    FlattenSeq([i \in 1..Len(ref_corrections) |-> ref_corrections[i].v])

\* counted_corrections_by_year of one agency: year -> set of ids.
CountedByYear(ref_corrections) ==
    LET cs    == CorrectionsOf(ref_corrections)
        valid == {i \in 1..Len(cs) : cs[i].id # "" /\ ~YearOf(cs[i].error_corrected).skipped}
        years == {YearOf(cs[i].error_corrected).year : i \in valid}
    IN [y \in years |-> {cs[i].id : i \in {j \in valid : YearOf(cs[j].error_corrected).year = y}}]

\* years_data after the two scans.
YearsData(doc, agency_corrections) ==
    LET hierarchy == _build_agency_hierarchy(doc)
        parent_agencies == {hierarchy[i].v : i \in 1..Len(hierarchy)}
        child_agencies  == {hierarchy[i].k : i \in 1..Len(hierarchy)}
        slugs == Range(Keys(agency_corrections))
        counted(a) == CountedByYear(Get(agency_corrections, a))
        years == UNION {DOMAIN counted(a) : a \in slugs}
        of(y, A) == [a \in {b \in A : y \in DOMAIN counted(b)} |-> Cardinality(counted(a)[y])]
    IN [y \in years |->
          [total           |-> Cardinality(UNION {counted(a)[y] :
                                                    a \in {b \in slugs : y \in DOMAIN counted(b)}}),
           parent_agencies |-> of(y, slugs \cap parent_agencies),
           child_agencies  |-> of(y, slugs \cap child_agencies),
           all_agencies    |-> of(y, slugs)]]

\* The method of the backend class: after the scans it calls
\* self._convert_for_json, which no class of backend defines.
analyze_corrections_over_time(doc, agency_corrections) ==
    LET years_data == YearsData(doc, agency_corrections)
    IN [raised |-> "AttributeError"]

Date2021 == PyStr(<<"2", "0", "2", "1", "-", "0", "1", "-", "0", "5">>)

Date2022 == PyStr(<<"2", "0", "2", "2", "-", "1", "1", "-", "3", "0">>)

\* The values of error_corrected: absent, empty, two dates, and values
\* that are no dates.
CorrectedDates ==
    {NoDate, PyStr(<<>>), Date2021, Date2022, PyStr(<<"2", "0", "2", "1", "/", "0", "1", "/", "0", "5">>), PyStr(<<"x", "-", "0", "1", "-", "0", "5">>),
     PyStr(<<"2", "0", "2", "1", "-", "9", "9">>), PyNum(2021)}

CorrectionRecords == [id : {"k1", "k2"}, error_corrected : CorrectedDates]

CorrectionLists(n) == UNION {[1..m -> CorrectionRecords] : m \in 0..n}

\* agency_corrections as analyze_corrections_by_agency builds it: for the
\* parent p and its child c1 the corrections of one reference each.
AgencyCorrections ==
    {<<[k |-> "p",  v |-> <<[k |-> _create_ref_key(RefChapterI), v |-> lp]>>],
       [k |-> "c1", v |-> <<[k |-> _create_ref_key(RefPart5), v |-> lc]>>]>> :
        lp \in CorrectionLists(MaxCorrections), lc \in CorrectionLists(1)}

InitOverTime ==
    /\ Constructed(AgencyDoc(<<RefChapterI>>, <<RefPart5>>, <<>>, <<>>))
    /\ pc = "call"
    /\ args \in [agency_corrections : AgencyCorrections]
    /\ returned = <<>>

CallAnalyzeCorrectionsOverTime ==
    Return(analyze_corrections_over_time(agencies_data, args.agency_corrections))

NextOverTime == CallAnalyzeCorrectionsOverTime

SpecOverTime == InitOverTime /\ [][NextOverTime]_vars

\* A date of the form YYYY-MM-DD.
WellFormedDate(d) ==
    /\ d.kind = "str"
    /\ Len(d.s) = 10
    /\ \A i \in 1..10 : IF i \in {5, 8} THEN d.s[i] = "-" ELSE IsDigit(d.s[i])

YearOfDate(d) == IntOf(SubSeq(d.s, 1, 4), 0)

\* The ids of the corrections of agency a with a well-formed date of year y.
IdsOfYear(agency_corrections, a, y) ==
    LET cs == CorrectionsOf(Get(agency_corrections, a))
    IN {cs[i].id : i \in {j \in 1..Len(cs) :
                            WellFormedDate(cs[j].error_corrected)
                              /\ YearOfDate(cs[j].error_corrected) = y}}

\* The years data count, for every agency and year, the corrections with a
\* well-formed date of that year, and nothing else.
CountsWellFormedDates(agency_corrections, years_data) ==
    LET slugs == Range(Keys(agency_corrections))
        years == {2021, 2022}
    IN /\ DOMAIN years_data \subseteq years
       /\ \A y \in years :
             LET all == UNION {IdsOfYear(agency_corrections, a, y) : a \in slugs}
             IN IF all = {} THEN y \notin DOMAIN years_data
                ELSE /\ y \in DOMAIN years_data
                     /\ years_data[y].total = Cardinality(all)
                     /\ \A a \in slugs :
                           IF IdsOfYear(agency_corrections, a, y) = {}
                           THEN a \notin DOMAIN years_data[y].all_agencies
                           ELSE /\ a \in DOMAIN years_data[y].all_agencies
                                /\ years_data[y].all_agencies[a]
                                     = Cardinality(IdsOfYear(agency_corrections, a, y))

\* C23: analyze_corrections_over_time skips a correction whose
\* error_corrected date is missing or malformed, counts it in no year, and
\* counts every correction with a valid date in its year, for its agency
\* and in the total of the year.
C23_BadDatesAreSkipped ==
    pc = "returned" =>
       /\ returned[1].raised = "no"
       /\ CountsWellFormedDates(args.agency_corrections, returned[1].years)

\* The same of the years data the scans leave, before the method goes on.
C23_ScanSkipsBadDates ==
    CountsWellFormedDates(args.agency_corrections,
                          YearsData(agencies_data, args.agency_corrections))

\* The same when no date is a string whose first field is a number and
\* that is no date.
C23_ScanSkipsUnreadableDates ==
    (\A a \in Range(Keys(args.agency_corrections)) :
        LET cs == CorrectionsOf(Get(args.agency_corrections, a))
        IN \A i \in 1..Len(cs) :
              WellFormedDate(cs[i].error_corrected)
                \/ YearOf(cs[i].error_corrected).skipped)
      => C23_ScanSkipsBadDates

(***************************************************************************)
(* The eviction of the XML                                                 *)
(***************************************************************************)
\* The positions in titles_to_process of the titles with XML whose entries
\* have all been gone through.
ProcessedPositions ==
    {n \in 1..Len(titles_to_process) :
        /\ titles_to_process[n] \in DOMAIN XmlFiles
        /\ \/ pc \in {"processed", "done"}
           \/ pc \in {"title", "entry"} /\ n < ti}

Evicted(n) == titles_to_process[n] \notin DOMAIN xml_data_cache

\* C24 as stated: the XML of a processed title is evicted only when more
\* than the threshold of 5 titles remain to be processed after it.
C24_EvictedOnlyWhenManyRemain ==
    \A n \in ProcessedPositions :
       Evicted(n) => Len(titles_to_process) - n > EvictThreshold

\* C24, amended: the XML of a processed title is evicted exactly when the
\* run has more than 5 titles to process in all, however many of them
\* remain; in a run over 5 titles or fewer it is kept.
C24_EvictedInLargeRuns ==
    \A n \in ProcessedPositions :
       Evicted(n) <=> Len(titles_to_process) > EvictThreshold

\* The run has ended and the XML of its last title is evicted.
C24_Witness ==
    /\ pc = "processed"
    /\ Len(titles_to_process) \in ProcessedPositions
    /\ Evicted(Len(titles_to_process))

\* A run over five titles or fewer has ended with the XML of a title kept.
C24_WitnessKept ==
    /\ pc = "processed"
    /\ Len(titles_to_process) <= EvictThreshold
    /\ \E n \in ProcessedPositions : ~Evicted(n)

(***************************************************************************)
(* backend FootprintAnalyzer.analyze_keyword_footprint on its own          *)
(***************************************************************************)
\* WordCountAnalyzer().analyze_word_count_by_agency() of backend: the first
\* call of the analysis function is a TypeError, and without any call the
\* method ends at self._roll_up_agency_totals (AttributeError).
BackendWordCount(doc) ==
    IF RunOver(WordCount, doc).raised THEN [raised |-> "TypeError"]
    ELSE [raised |-> "AttributeError"]

\* round((total_matches / agency_word_count) * 10000, 2), in hundredths.
RelativePer10k(total_matches, agency_word_count) ==
    IF agency_word_count > 0
    THEN (2 * total_matches * 1000000 + agency_word_count) \div (2 * agency_word_count)
    ELSE 0

\* The footprint data of lines 191-233.
BackendFootprintData(agency_ref_footprints, word_count_data) ==
    LET slugs == Range(Keys(agency_ref_footprints))
        refs(a) == Get(agency_ref_footprints, a)
        agency_totals == [a \in slugs |-> SumOver(refs(a), "total_matches")]
        words(a) == IF a \in DOMAIN word_count_data.agencies
                    THEN word_count_data.agencies[a].total ELSE 0
    IN [total_matches |-> SumValues(agency_totals),
        agencies |->
          [a \in slugs |->
             [total_matches          |-> agency_totals[a],
              relative_per_10k_words |-> RelativePer10k(agency_totals[a], words(a)),
              references |->
                [d \in {refs(a)[k].description : k \in DOMAIN refs(a)} |->
                   LET k == CHOOSE x \in DOMAIN refs(a) : refs(a)[x].description = d
                   IN [total_matches   |-> refs(a)[k].total_matches,
                       keyword_matches |-> refs(a)[k].keyword_matches]]]]]

\* analyze_keyword_footprint(BUREAUCRACY_WORDS, ...): word_count_data is
\* the attribute of that name, None on an analyzer that has none.
BackendAnalyzeKeywordFootprint(doc, word_count_data) ==
    LET agency_ref_footprints == RunOver(FootprintBackend, doc).results
    IN IF word_count_data = None
       THEN BackendWordCount(doc)
       ELSE [raised |-> "no",
             footprint_data |-> BackendFootprintData(agency_ref_footprints,
                                                     word_count_data[1])]

\* The references of one agency: none or one.
OneOrNoReference == {<<>>} \cup {<<r>> : r \in RefPool}

\* Word count data set on the analyzer from outside.
GivenWordCountData ==
    [agencies |-> [a \in {"p", "c1", "q"} |-> [total |-> 300]]]

InitBackendFootprint ==
    /\ \E rp \in OneOrNoReference, r1 \in OneOrNoReference, rq \in OneOrNoReference :
          Constructed(AgencyDoc(rp, r1, <<>>, rq))
    /\ pc = "call"
    /\ args \in [word_count_data : {None, <<GivenWordCountData>>}]
    /\ returned = <<>>

CallBackendAnalyzeKeywordFootprint ==
    Return(BackendAnalyzeKeywordFootprint(agencies_data, args.word_count_data))

NextBackendFootprint == CallBackendAnalyzeKeywordFootprint

SpecBackendFootprint == InitBackendFootprint /\ [][NextBackendFootprint]_vars

\* The results of the processor for the document.
BackendResults == RunOver(FootprintBackend, agencies_data).results

\* The keys with a result, and the matches of each.
ResultKeysOf(results) == UNION {DOMAIN results[i].v : i \in 1..Len(results)}

MatchesOfKey(results) ==
    [key \in ResultKeysOf(results) |->
        LET i == CHOOSE j \in 1..Len(results) : key \in DOMAIN results[j].v
        IN results[i].v[key].total_matches]

\* C25: the global total_matches of backend analyze_keyword_footprint is
\* taken once over the distinct ReferenceKeys: a key with matches that two
\* agencies cite contributes once.
C25_GlobalTotalOverDistinctKeys ==
    (pc = "returned" /\ returned[1].raised = "no") =>
       returned[1].footprint_data.total_matches
         = SumOfSet(MatchesOfKey(BackendResults), ResultKeysOf(BackendResults))

\* An analyzer without word count data ends in an error.
C25_FreshAnalyzerRaises ==
    (pc = "returned" /\ args.word_count_data = None) => returned[1].raised # "no"

(***************************************************************************)
(* The call of the word-count analysis function                            *)
(***************************************************************************)
\* C26: the word-count analysis function accepts the call the processor
\* makes with (agency_slug, ref_key, text, description): a word-count run
\* in which some reference has a non-empty extracted text does not end in
\* an error, and when it has ended it has returned its per-agency counts.
C26_WordCountAcceptsTheCall ==
    (/\ analyzer = WordCount
     /\ \E key \in DOMAIN extracted_text_cache : extracted_text_cache[key].text # <<>>)
      => /\ pc # "raised"
         /\ pc = "done" => output # None

(***************************************************************************)
(* What the rollup leaves as it was                                        *)
(***************************************************************************)
\* C27: the rollup only adds.  Every agency of the input is in the output,
\* every key of an agency's references is still there with the entry of
\* the input (the parent's own value, the child's entries), and the
\* agency_data object given to the rollup is not modified.
C27_RollUpOnlyAdds ==
    [][ (pc = "call" /\ pc' = "returned") =>
          /\ args'.agency_data = args.agency_data
          /\ DOMAIN returned'[1] = DOMAIN args.agency_data
          /\ \A a \in DOMAIN args.agency_data :
                \A key \in DOMAIN args.agency_data[a].references :
                   /\ key \in DOMAIN returned'[1][a].references
                   /\ returned'[1][a].references[key]
                        = args.agency_data[a].references[key] ]_vars

\* The rollup has returned: the parent and its child held one key with
\* different values, and the parent got another key from the child.
C27_Witness ==
    /\ pc = "returned"
    /\ {"p", "c1"} \subseteq DOMAIN args.agency_data
    /\ \E key \in DOMAIN args.agency_data["p"].references
                    \cap DOMAIN args.agency_data["c1"].references :
          args.agency_data["p"].references[key] # args.agency_data["c1"].references[key]
    /\ \E key \in DOMAIN args.agency_data["c1"].references :
          /\ key \notin DOMAIN args.agency_data["p"].references
          /\ key \in DOMAIN returned[1]["p"].references

(***************************************************************************)
(* The order in which agencies and references are met                      *)
(***************************************************************************)
\* The orders in which the elements of a list can come.
Orders(s) == {[i \in 1..Len(s) |-> s[f[i]]] : f \in Permutations(1..Len(s))}

\* The agency with its cfr_references in any order.
ReorderedReferences(agency) ==
    {[agency EXCEPT !.cfr_references = refs] : refs \in Orders(agency.cfr_references)}

\* Every choice of one element of each set of a list of sets.
RECURSIVE Choices(_)
Choices(sets) ==
    IF sets = <<>> THEN {<<>>}
    ELSE {<<x>> \o rest : x \in Head(sets), rest \in Choices(Tail(sets))}

\* The agencies with their own references and their children in any order.
ReorderedAgencies(agencies) ==
    UNION {Choices([i \in 1..Len(order) |->
                      {[a EXCEPT !.children = children] :
                           a \in ReorderedReferences(order[i]),
                           children \in UNION {Choices([j \in 1..Len(co) |->
                                                          ReorderedReferences(co[j])]) :
                                                 co \in Orders(order[i].children)}}]) :
             order \in Orders(agencies)}

\* The agencies.json documents that declare what doc declares, with the
\* agencies and the references of an agency in another order.
Reorderings(doc) == {[agencies |-> agencies] : agencies \in ReorderedAgencies(doc.agencies)}

\* C28: the text cached and analysed for a ReferenceKey does not depend on
\* the order in which the agencies and their references are met: a run
\* over the same declarations in any other order caches the same text under
\* every key.
C28_TextIndependentOfOrder ==
    pc = "processed" =>
        \A doc \in Reorderings(agencies_data) :
           LET run == RunOver(analyzer, doc)
           IN \A key \in DOMAIN extracted_text_cache \cap DOMAIN run.cache :
                 run.cache[key].text = extracted_text_cache[key].text

\* No two references of the document have one key and differ below the part.
KeysTellReferencesApart ==
    LET agency_refs == _get_agency_cfr_references(agencies_data)
        refs == UNION {Range(agency_refs[i].v) : i \in 1..Len(agency_refs)}
    IN \A r1 \in refs, r2 \in refs :
          _create_ref_key(r1) = _create_ref_key(r2) => r1 = r2

\* The order does not matter when the key tells the references apart.
C28_SameTextWhenKeysTellApart ==
    (pc = "processed" /\ KeysTellReferencesApart) =>
        \A doc \in Reorderings(agencies_data) :
           LET run == RunOver(analyzer, doc)
           IN /\ DOMAIN run.cache = DOMAIN extracted_text_cache
              /\ \A key \in DOMAIN run.cache :
                    run.cache[key].text = extracted_text_cache[key].text

(***************************************************************************)
(* CorrectionsAnalyzer.analyze_corrections_by_agency                       *)
(***************************************************************************)
\* corrections_dir / title_<n>_corrections.json, or [] when there is none.
_load_title_corrections(corrections_dir, title_number) ==
    IF title_number \in DOMAIN corrections_dir THEN corrections_dir[title_number]
    ELSE <<>>

\* od[k] when od has the key, the default of the defaultdict otherwise.
GetOrDefault(od, k, default) == IF HasKey(od, k) THEN Get(od, k) ELSE default

\* The entry appended for a correction and one of its cfr_references.
CorrectionEntry(correction, cfr_ref) ==
    [id |-> correction.id, hierarchy |-> cfr_ref.hierarchy]

\* for cfr_ref in correction["cfr_references"]: an entry is appended for
\* every one whose hierarchy matches the key.
RECURSIVE AppendMatches(_, _, _, _)
AppendMatches(corrs, ref_key, correction, cfr_references) ==
    IF cfr_references = <<>> THEN corrs
    ELSE LET cfr_ref == Head(cfr_references)
         IN AppendMatches(
               IF "hierarchy" \notin DOMAIN cfr_ref THEN corrs
               ELSE IF _matches_reference(ref_key, cfr_ref.hierarchy, ref_key[1])
               THEN Append(corrs, CorrectionEntry(correction, cfr_ref))
               ELSE corrs,
               ref_key, correction, Tail(cfr_references))

\* for correction in title_corrections
RECURSIVE ScanCorrections(_, _, _)
ScanCorrections(corrs, ref_key, title_corrections) ==
    IF title_corrections = <<>> THEN corrs
    ELSE LET correction == Head(title_corrections)
         IN ScanCorrections(
               IF "cfr_references" \notin DOMAIN correction THEN corrs
               ELSE AppendMatches(corrs, ref_key, correction, correction.cfr_references),
               ref_key, Tail(title_corrections))

\* for ref in references: agency_corrections[agency_slug][ref_key] gets the
\* matching corrections of the reference's title; the key exists once
\* something was appended under it.
RECURSIVE ScanReferences(_, _, _)
ScanReferences(ref_corrections, references, corrections_dir) ==
    IF references = <<>> THEN ref_corrections
    ELSE LET ref_key == _create_ref_key(Head(references))
             before  == GetOrDefault(ref_corrections, ref_key, <<>>)
             after   == ScanCorrections(before, ref_key,
                                        _load_title_corrections(corrections_dir, ref_key[1]))
         IN ScanReferences(
               IF after = <<>> THEN ref_corrections
               ELSE OPut(ref_corrections, ref_key, after),
               Tail(references), corrections_dir)

\* for agency_slug, references in agency_references.items()
RECURSIVE ScanAgencies(_, _, _, _)
ScanAgencies(agency_corrections, agency_references, i, corrections_dir) ==
    IF i > Len(agency_references) THEN agency_corrections
    ELSE LET agency_slug     == agency_references[i].k
             ref_corrections == ScanReferences(
                                   GetOrDefault(agency_corrections, agency_slug, <<>>),
                                   agency_references[i].v, corrections_dir)
         IN ScanAgencies(
               IF ref_corrections = <<>> THEN agency_corrections
               ELSE OPut(agency_corrections, agency_slug, ref_corrections),
               agency_references, i + 1, corrections_dir)

\* agency_corrections after the loop over the agencies and their references.
CollectAgencyCorrections(doc, corrections_dir) ==
    ScanAgencies(<<>>, _get_agency_cfr_references(doc), 1, corrections_dir)

\* The hierarchies of the cfr_references of the corrections of title 1.
TitleOne       == ("title" :> <<"1">>)
TitleOnePart5  == ("title" :> <<"1">>) @@ ("part" :> <<"5">>)
TitleOnePart9  == ("title" :> <<"1">>) @@ ("part" :> <<"9">>)

CfrReferences ==
    {<<>>} \cup {("hierarchy" :> h) : h \in {TitleOne, TitleOnePart5, TitleOnePart9}}

CfrReferenceLists ==
    {<<>>} \cup {<<c>> : c \in CfrReferences}
           \cup {<<c, d>> : c \in CfrReferences, d \in CfrReferences}

\* A correction without its id: with or without cfr_references.
CorrectionBodies == {<<>>} \cup {("cfr_references" :> l) : l \in CfrReferenceLists}

\* The corrections of a file: each has an id of its own.
CorrectionFiles ==
    UNION {{[i \in 1..m |-> ("id" :> i) @@ body[i]] : body \in [1..m -> CorrectionBodies]} :
             m \in 0..MaxCorrections}

\* p declares up to two references, its child c1 one or none.
DeclaredReferences ==
    LET pool == {RefChapterI, RefPart5, RefSection51}
    IN {<<>>} \cup {<<r>> : r \in pool} \cup {<<r, q>> : r \in pool, q \in pool}

InitCorrectionsByAgency ==
    /\ \E rp \in DeclaredReferences, r1 \in {<<>>, <<RefPart5>>} :
          Constructed(AgencyDoc(rp, r1, <<>>, <<>>))
    /\ pc = "call"
    /\ args \in [corrections_dir : {(1 :> f) : f \in CorrectionFiles}]
    /\ returned = <<>>

\* analyze_corrections_by_agency up to the end of the loop over the
\* agencies: agency_corrections is built.
ScanAgencyCorrections ==
    /\ pc = "call"
    /\ agency_results' = CollectAgencyCorrections(agencies_data, args.corrections_dir)
    /\ pc' = "collected"
    /\ UNCHANGED <<load_calls, args, returned, agencies_data, analyzer, xml_data_cache,
                   extracted_text_cache, title_to_agencies, titles_to_process, ti, ei,
                   processed_title_agency_pairs, processed_refs_for_title,
                   extract_calls, analysis_calls, output>>

\* The rest of the method: the totals, then self._roll_up_agency_totals,
\* which no class of backend defines.
RollUpAgencyCorrections ==
    /\ pc = "collected"
    /\ returned' = <<[raised |-> "AttributeError"]>>
    /\ pc' = "raised"
    /\ UNCHANGED <<load_calls, args, agency_results, agencies_data, analyzer,
                   xml_data_cache, extracted_text_cache, title_to_agencies,
                   titles_to_process, ti, ei, processed_title_agency_pairs,
                   processed_refs_for_title, extract_calls, analysis_calls, output>>

NextCorrectionsByAgency == ScanAgencyCorrections \/ RollUpAgencyCorrections

SpecCorrectionsByAgency == InitCorrectionsByAgency /\ [][NextCorrectionsByAgency]_vars

\* The ids of a list of corrections are all different.
DistinctIds(corrs) ==
    \A i \in 1..Len(corrs), j \in 1..Len(corrs) : corrs[i].id = corrs[j].id => i = j

\* C29: the list agency_corrections[agency][ref_key] never holds the same
\* correction id twice, also when the agency declares two references with
\* the same key or a correction has several matching cfr_references.
C29_NoCorrectionTwice ==
    pc \in {"collected", "raised"} =>
        \A a \in 1..Len(agency_results) :
           \A r \in 1..Len(agency_results[a].v) :
              DistinctIds(agency_results[a].v[r].v)

\* Two references of the agency have one key.
DeclaresAKeyTwice(references) ==
    \E i \in 1..Len(references), j \in 1..Len(references) :
       i # j /\ _create_ref_key(references[i]) = _create_ref_key(references[j])

\* Two cfr_references of a correction match the key.
MatchesTwice(correction, ref_key) ==
    /\ "cfr_references" \in DOMAIN correction
    /\ \E i \in 1..Len(correction.cfr_references), j \in 1..Len(correction.cfr_references) :
          /\ i # j
          /\ \A n \in {i, j} :
                /\ "hierarchy" \in DOMAIN correction.cfr_references[n]
                /\ _matches_reference(ref_key, correction.cfr_references[n].hierarchy,
                                      ref_key[1])

\* Without those two cases no list holds an id twice.
C29_NoCorrectionTwiceOtherwise ==
    LET agency_references == _get_agency_cfr_references(agencies_data)
        corrections == args.corrections_dir[1]
    IN (/\ pc \in {"collected", "raised"}
        /\ \A a \in 1..Len(agency_references) :
              /\ ~DeclaresAKeyTwice(agency_references[a].v)
              /\ \A r \in 1..Len(agency_references[a].v), c \in 1..Len(corrections) :
                    ~MatchesTwice(corrections[c], _create_ref_key(agency_references[a].v[r])))
         => C29_NoCorrectionTwice

(***************************************************************************)
(* How often a node is among the candidates                                *)
(***************************************************************************)
\* target_elements after the first l levels: the DIV1 elements, replaced at
\* each level by its matches when there are any.
RECURSIVE CandidatesOfLevel(_, _, _)
CandidatesOfLevel(doc, ref, l) ==
    IF l = 0 THEN FindAllInDoc(doc, 1)
    ELSE LET current == CandidatesOfLevel(doc, ref, l - 1)
             matched == find_matching_elements(doc, current, Levels[l].tag,
                                               RefGet(ref, Levels[l].key))
         IN IF matched # <<>> THEN matched ELSE current

\* The nodes the words of the text come from, word by word.
SourcesOf(text) == [i \in 1..Len(text) |-> text[i].src]

\* C30: each XML node contributes its text at most once: no node is twice
\* among the candidates of a level, also when candidates are nested, and
\* no word of a node is twice in the extracted text.
C30_EachNodeAtMostOnce ==
    (pc = "returned" /\ Faultless) =>
        /\ \A l \in 0..Len(Levels) :
              NoDuplicates(CandidatesOfLevel(args.doc, args.ref, l))
        /\ NoDuplicates(SourcesOf(returned[1].text))

\* No candidate of a level is inside another candidate of the level.
NoNestedCandidates ==
    \A l \in 0..Len(Levels) :
       LET current == CandidatesOfLevel(args.doc, args.ref, l)
       IN \A i \in 1..Len(current), j \in 1..Len(current) :
             ~IsDescendant(args.doc, current[i], current[j])

\* When no candidates are nested each node is a candidate once and gives
\* its words once.
C30_OnceWhenNotNested ==
    (pc = "returned" /\ Faultless /\ NoNestedCandidates) =>
        /\ \A l \in 0..Len(Levels) :
              NoDuplicates(CandidatesOfLevel(args.doc, args.ref, l))
        /\ NoDuplicates(SourcesOf(returned[1].text))

====
